---- MODULE Spec2Model ----
(***************************************************************************)
(* Bulk tag orchestrator of the product tagger: the submission request     *)
(* (action: collect every matching product page by page, plan the tag      *)
(* mutation, stage the JSONL upload, start the bulk operation) and the     *)
(* reconciliation of a finished bulk operation's result file               *)
(* (processBulkOperationResults).                                          *)
(*                                                                         *)
(* Conventions.  A JavaScript string is a sequence of one-character        *)
(* strings (a literal piece of a template is kept as one token).  A value  *)
(* that may be null/undefined is None (the empty sequence) or Some(v).     *)
(***************************************************************************)
EXTENDS Integers, Sequences, FiniteSets, TLC

None == <<>>
Some(v) == <<v>>

-----------------------------------------------------------------------------
(* Bounds of the model *)

\* pages the platform serves in one collection before it reports the last one
MaxPages == 2
\* lines of a bulk operation's result file
MaxLines == 3
\* largest totalFiltered / totalProcessed a status-check request carries
MaxCount == 3
\* filter fields hold up to MaxFieldLen characters
MaxFieldLen == 2

\* types.ts: FETCH_PAGE_LIMIT
FETCH_PAGE_LIMIT == 250

-----------------------------------------------------------------------------
(* JavaScript string primitives *)

IsSpace(c) == c = " "

RECURSIVE TrimStart(_)
TrimStart(s) ==
  IF s # <<>> /\ IsSpace(Head(s)) THEN TrimStart(Tail(s)) ELSE s

RECURSIVE TrimEnd(_)
TrimEnd(s) ==
  IF s # <<>> /\ IsSpace(s[Len(s)]) THEN TrimEnd(SubSeq(s, 1, Len(s) - 1)) ELSE s

\* String.prototype.trim
Trim(s) == TrimEnd(TrimStart(s))

ToLowerChar(c) ==
  CASE c = "A" -> "a"
    [] c = "B" -> "b"
    [] c = "C" -> "c"
    [] OTHER -> c

\* String.prototype.toLowerCase
ToLowerCase(s) == [i \in 1..Len(s) |-> ToLowerChar(s[i])]

\* s.replace(/['"]/g, "")
RECURSIVE StripQuotes(_)
StripQuotes(s) ==
  IF s = <<>> THEN <<>>
  ELSE IF Head(s) \in {"'", "\""} THEN StripQuotes(Tail(s))
       ELSE <<Head(s)>> \o StripQuotes(Tail(s))

\* faulty variant of EscapeSingleQuotes: the string is taken as it is
KeepSingleQuotes(s) == s

\* s.replace(/'/g, "\\'")
RECURSIVE EscapeSingleQuotes(_)
EscapeSingleQuotes(s) ==
  IF s = <<>> THEN <<>>
  ELSE IF Head(s) = "'" THEN <<"\\", "'">> \o EscapeSingleQuotes(Tail(s))
       ELSE <<Head(s)>> \o EscapeSingleQuotes(Tail(s))

\* parts.join(sep)
RECURSIVE Join(_, _)
Join(parts, sep) ==
  IF parts = <<>> THEN <<>>
  ELSE IF Len(parts) = 1 THEN parts[1]
       ELSE parts[1] \o sep \o Join(Tail(parts), sep)

-----------------------------------------------------------------------------
(* queryBuilder.ts *)

\* faulty variant of KeywordClause: the keyword is not trimmed before the test
KeywordClauseUntrimmed(keyword) ==
  IF keyword # <<>>
  THEN << <<"title:*">> \o StripQuotes(Trim(keyword)) \o <<"*">> >>
  ELSE <<>>

KeywordClause(keyword) ==
  IF Trim(keyword) # <<>>
  THEN << <<"title:*">> \o StripQuotes(Trim(keyword)) \o <<"*">> >>
  ELSE <<>>

ProductTypeClause(productType) ==
  IF Trim(productType) # <<>>
  THEN << <<"product_type:", "'">> \o EscapeSingleQuotes(Trim(productType)) \o <<"'">> >>
  ELSE <<>>

CollectionClause(collectionHandle) ==
  IF Trim(collectionHandle) # <<>>
  THEN << <<"collection:", "'">> \o EscapeSingleQuotes(Trim(collectionHandle)) \o <<"'">> >>
  ELSE <<>>

\* buildProductQuery: None is `undefined`
BuildProductQuery(filters) ==
  LET queryParts == KeywordClause(filters.keyword)
                    \o ProductTypeClause(filters.productType)
                    \o CollectionClause(filters.collectionHandle)
  IN IF Len(queryParts) > 0 THEN Some(Join(queryParts, <<" AND ">>)) ELSE None

-----------------------------------------------------------------------------
(* The platform's catalog and the inputs of a request *)

ProductIds == {1, 2}

tagA == <<"A">>
taga == <<"a">>
tagb == <<"b">>
tagc == <<"c">>

\* tag lists a product of the catalog may carry
TagLists == { <<>>, <<tagb>>, <<tagA, tagc>>, <<tagc, taga, tagA>> }

Catalogs == [ProductIds -> TagLists]

\* the node of one edge: the product as the platform reports it
Node(cat, id) == [id |-> id, tags |-> cat[id]]

\* the edge lists (product ids) a page may hold
PageEdges == { <<>>, <<1>>, <<2>>, <<1, 2>>, <<2, 1>> }

Cursors == {"c1", "c2"}

\* what the operator may type as the tag
TagInputs == { <<" ">>, <<"a">>, <<" ", "B", " ">> }

BlankFilters == [keyword |-> <<>>, productType |-> <<>>, collectionHandle |-> <<>>]

FilterInputs ==
  { BlankFilters,
    [BlankFilters EXCEPT !.keyword = <<" ">>],
    [BlankFilters EXCEPT !.keyword = <<"s", "'">>, !.productType = <<"t">>] }

Intents == {"applyTag", "removeTag", "preview"}

JobIds == {"gid://shopify/BulkOperation/1", "gid://shopify/BulkOperation/2"}

-----------------------------------------------------------------------------
VARIABLES
  catalog,        \* platform: product id -> tags
  formData,       \* the submission's form fields
  pc,             \* where the action handler stands
  TAG,            \* action: tagToApply.trim()
  queryString,    \* action: buildProductQuery(filters)
  allProducts,    \* fetchProductsIteratively: products collected so far
  cursor,         \* fetchProductsIteratively: cursor of the next page request
  hasNextPage,    \* fetchProductsIteratively: loop condition
  pageRequests,   \* cursors of the page requests issued, in order
  pageLog,        \* page responses received, in order
  delays,         \* number of 300 ms waits taken
  collected,      \* what fetchProductsIteratively gave its caller
  jsonlLines,     \* action: the serialized mutation records
  preRunSummary,  \* action: the summary computed before submission
  keyParam,       \* action: the staged target's "key" parameter
  calls,          \* platform calls issued by the submission
  uploaded,       \* content received by the staged upload target
  callLog,        \* the submission's platform calls and their outcomes, in order
  actionData,     \* what the action returned
  opContext,      \* status check: totalFiltered, totalProcessed, tag
  resultsText,    \* content of the bulk operation's result file
  finalSummary,   \* what processBulkOperationResults returned
  searchParams,   \* the parameters of the request the loader serves
  currentOp,      \* platform: currentBulkOperation(type: MUTATION)
  loaderData,     \* what the loader returned
  resultFetches,  \* number of fetches of a result file
  bulkOpId,       \* client state: the job handle
  bulkOpContext,  \* client state: totalFiltered, totalProcessed, tag
  currentSummary, \* client state: the summary on display
  seenActionData, \* the actionData the client's effect last ran for
  pollSent,       \* the handle and context held when the last poll was built
  pollTimer,      \* number of pending poll timers
  effectPending,  \* the poll effect's dependencies changed since it last ran
  statusQueries,  \* the answers to the status queries of the request being served
  lastServed      \* the response to the request that is being repeated

collectorVars == <<allProducts, cursor, hasNextPage, pageRequests, pageLog, delays, collected>>
submitVars == <<jsonlLines, preRunSummary, keyParam, calls, uploaded, callLog>>
actionVars == <<catalog, formData, pc, TAG, queryString, actionData>>
reconcileVars == <<opContext, resultsText, finalSummary>>
loaderVars == <<searchParams, currentOp, loaderData, resultFetches, statusQueries,
                lastServed>>
clientVars == <<bulkOpId, bulkOpContext, currentSummary, seenActionData, pollSent,
                pollTimer, effectPending>>
pageVars == <<loaderVars, clientVars>>
vars == <<actionVars, collectorVars, submitVars, reconcileVars, pageVars>>

NoCalls == [staged |-> 0, upload |-> 0, bulkRun |-> 0]

-----------------------------------------------------------------------------
(* action.server.ts: planning *)

\* faulty variant of HasTag: compares without lowering the case
HasTagExact(tags, tag) ==
  \E i \in 1..Len(tags) : tags[i] = tag

\* product.tags.some((tag) => tag.toLowerCase() === TAG.toLowerCase())
HasTag(tags, tag) ==
  \E i \in 1..Len(tags) : ToLowerCase(tags[i]) = ToLowerCase(tag)

\* allProducts.filter(keep) for the two actions
RECURSIVE ProductsToUpdate(_, _, _)
ProductsToUpdate(products, tag, intent) ==
  IF products = <<>> THEN <<>>
  ELSE LET product == Head(products)
           keep == IF intent = "applyTag" THEN ~HasTag(product.tags, tag)
                   ELSE HasTag(product.tags, tag)
       IN (IF keep THEN <<product>> ELSE <<>>)
          \o ProductsToUpdate(Tail(products), tag, intent)

\* applyTag: [...product.tags, TAG]
ApplyNewTags(tags, tag) == Append(tags, tag)

\* faulty variant of RemoveNewTags: takes only the first match off
RECURSIVE RemoveFirstMatchOnly(_, _)
RemoveFirstMatchOnly(tags, tag) ==
  IF tags = <<>> THEN <<>>
  ELSE IF ToLowerCase(Head(tags)) = ToLowerCase(tag) THEN Tail(tags)
       ELSE <<Head(tags)>> \o RemoveFirstMatchOnly(Tail(tags), tag)

\* faulty variant of RemoveNewTags: filters without lowering the case
RECURSIVE RemoveExactOnly(_, _)
RemoveExactOnly(tags, tag) ==
  IF tags = <<>> THEN <<>>
  ELSE (IF Head(tags) # tag THEN <<Head(tags)>> ELSE <<>>)
       \o RemoveExactOnly(Tail(tags), tag)

\* removeTag: product.tags.filter((tag) => tag.toLowerCase() !== TAG.toLowerCase())
RECURSIVE RemoveNewTags(_, _)
RemoveNewTags(tags, tag) ==
  IF tags = <<>> THEN <<>>
  ELSE (IF ToLowerCase(Head(tags)) # ToLowerCase(tag) THEN <<Head(tags)>> ELSE <<>>)
       \o RemoveNewTags(Tail(tags), tag)

\* one line of the JSONL file: JSON.stringify({ input: { id, tags: newTags } })
MutationLine(product, tag, intent) ==
  [input |-> [id |-> product.id,
              tags |-> IF intent = "applyTag" THEN ApplyNewTags(product.tags, tag)
                       ELSE RemoveNewTags(product.tags, tag)]]

\* productsToUpdate.map(...)
JsonlLines(products, tag, intent) ==
  LET productsToUpdate == ProductsToUpdate(products, tag, intent)
  IN [i \in 1..Len(productsToUpdate) |-> MutationLine(productsToUpdate[i], tag, intent)]

\* faulty variant of PreRunSummary: reports every collected product as updated
PreRunSummaryCountsAll(totalFiltered, totalProcessed, tag, intent) ==
  IF intent = "applyTag"
  THEN [updated |-> totalFiltered,
        alreadyHadTag |-> 0,
        failed |-> 0,
        total |-> totalFiltered,
        tag |-> tag]
  ELSE [updated |-> totalFiltered,
        alreadyHadTag |-> 0,
        didNotHaveTag |-> 0,
        failed |-> 0,
        total |-> totalFiltered,
        tag |-> tag,
        action |-> "remove"]

\* the preRunSummary literal of the two actions
PreRunSummary(totalFiltered, totalProcessed, tag, intent) ==
  IF intent = "applyTag"
  THEN [updated |-> totalProcessed,
        alreadyHadTag |-> totalFiltered - totalProcessed,
        failed |-> 0,
        total |-> totalFiltered,
        tag |-> tag]
  ELSE [updated |-> totalProcessed,
        alreadyHadTag |-> 0,
        didNotHaveTag |-> totalFiltered - totalProcessed,
        failed |-> 0,
        total |-> totalFiltered,
        tag |-> tag,
        action |-> "remove"]

\* the ActionData object literals
ActionError(message) ==
  [success |-> FALSE, error |-> Some(message),
   bulkOperationId |-> None, preRunSummary |-> None]

ActionNothingToDo(summary) ==
  [success |-> TRUE, error |-> None,
   bulkOperationId |-> None, preRunSummary |-> Some(summary)]

ActionStarted(id, summary) ==
  [success |-> TRUE, error |-> None,
   bulkOperationId |-> Some(id), preRunSummary |-> Some(summary)]

\* the catch block of each action
CatchMessage(intent, message) ==
  IF intent = "applyTag"
  THEN "Failed to start bulk operation: " \o message
  ELSE "Failed to start bulk remove operation: " \o message

NoQueryMessage(intent) ==
  IF intent = "applyTag"
  THEN "Please apply at least one filter before tagging."
  ELSE "Please apply at least one filter before removing tags."

NoProductsMessage(intent) ==
  IF intent = "applyTag"
  THEN "No products found matching your filters to tag."
  ELSE "No products found matching your filters."

-----------------------------------------------------------------------------
(* loader.server.ts: the loader's return value on the paths that fetch no products *)

LoaderReturn(status, summary) ==
  [products |-> <<>>, totalCount |-> 0, filters |-> BlankFilters, previewMode |-> FALSE,
   error |-> None, bulkOperationStatus |-> status, finalSummary |-> summary]

\* one entry of callLog
Call(name, event) == [call |-> name, event |-> event]

-----------------------------------------------------------------------------
(* The state after construction: a submission has arrived *)

Init ==
  /\ catalog \in Catalogs
  /\ formData \in [action : Intents, filters : FilterInputs, tagToApply : TagInputs]
  /\ pc = "start"
  /\ TAG = None
  /\ queryString = None
  /\ allProducts = <<>>
  /\ cursor = None
  /\ hasNextPage = FALSE
  /\ pageRequests = <<>>
  /\ pageLog = <<>>
  /\ delays = 0
  /\ collected = None
  /\ jsonlLines = <<>>
  /\ preRunSummary = None
  /\ keyParam = None
  /\ calls = NoCalls
  /\ uploaded = None
  /\ callLog = <<>>
  /\ actionData = None
  /\ opContext = None
  /\ resultsText = None
  /\ finalSummary = None
  /\ searchParams = None
  /\ currentOp = None
  /\ loaderData = LoaderReturn(None, None)
  /\ resultFetches = 0
  /\ bulkOpId = None
  /\ bulkOpContext = None
  /\ currentSummary = None
  /\ seenActionData = None
  /\ pollSent = None
  /\ pollTimer = 0
  /\ effectPending = FALSE
  /\ statusQueries = <<>>
  /\ lastServed = None

\* the action returns
Return(data) ==
  /\ pc' = "done"
  /\ actionData' = Some(data)

\* action: from the request to the first page request
ActionStart ==
  /\ pc = "start"
  /\ IF Trim(formData.tagToApply) = <<>>
     THEN /\ Return(ActionError("Tag name cannot be empty."))
          /\ UNCHANGED <<TAG, queryString, hasNextPage>>
     ELSE /\ TAG' = Some(Trim(formData.tagToApply))
          /\ IF formData.action \notin {"applyTag", "removeTag"}
             THEN /\ Return(ActionError("Invalid action"))
                  /\ UNCHANGED <<queryString, hasNextPage>>
             ELSE /\ queryString' = BuildProductQuery(formData.filters)
                  /\ IF queryString' = None
                     THEN /\ Return(ActionError(NoQueryMessage(formData.action)))
                          /\ UNCHANGED hasNextPage
                     ELSE /\ pc' = "collect"
                          /\ hasNextPage' = TRUE
                          /\ UNCHANGED actionData
  /\ UNCHANGED <<catalog, formData, allProducts, cursor, pageRequests, pageLog,
                 delays, collected, submitVars, reconcileVars, pageVars>>

-----------------------------------------------------------------------------
(* shopifyApi.ts: fetchProductsIteratively, one loop iteration per action *)

PageFailures == {"thrown", "errors", "noProducts"}

\* the error that leaves the loop for each way a page request fails
PageFailureMessage(kind) ==
  IF kind = "thrown" THEN "fetch failed"
  ELSE "Failed to fetch products during pagination."

\* data.data.products.edges.map((edge) => edge.node)
PageProducts(cat, edges) == [i \in 1..Len(edges) |-> Node(cat, edges[i])]

\* faulty variant of PushAll: puts the new page in front
PushAllFront(products, pageProducts) == pageProducts \o products

\* allProducts.push(...pageProducts)
PushAll(products, pageProducts) == products \o pageProducts

\* faulty variant of WaitsAfterPage: hasNextPage is not looked at
WaitsAfterEveryPage(next, products) == Len(products) % FETCH_PAGE_LIMIT = 0

\* hasNextPage && allProducts.length % FETCH_PAGE_LIMIT === 0
WaitsAfterPage(next, products) == next /\ Len(products) % FETCH_PAGE_LIMIT = 0

\* faulty variant of AdvanceCursor: the next page is asked from the old cursor
KeepCursor(old, endCursor) == old

\* cursor = data.data.products.pageInfo.endCursor
AdvanceCursor(old, endCursor) == endCursor

\* the platform serves at most MaxPages pages: the last one it serves ends the set
MayRequestPage ==
  /\ pc = "collect"
  /\ hasNextPage
  /\ Len(pageRequests) < MaxPages

\* a page request answered with a page
FetchPageOk(edges, next, endCursor) ==
  /\ MayRequestPage
  /\ Len(pageRequests) + 1 = MaxPages => ~next
  /\ pageRequests' = Append(pageRequests, cursor)
  /\ pageLog' = Append(pageLog, [edges |-> PageProducts(catalog, edges),
                                 hasNextPage |-> next, endCursor |-> endCursor])
  /\ allProducts' = PushAll(allProducts, PageProducts(catalog, edges))
  /\ hasNextPage' = next
  /\ cursor' = AdvanceCursor(cursor, endCursor)
  /\ delays' = IF WaitsAfterPage(next, allProducts') THEN delays + 1 ELSE delays
  /\ IF next
     THEN UNCHANGED <<pc, collected>>
     ELSE /\ pc' = "collected"
          /\ collected' = Some(allProducts')
  /\ UNCHANGED <<catalog, formData, TAG, queryString, actionData, submitVars,
                 reconcileVars, pageVars>>

\* faulty variant of FetchPageFail: the failure is logged and the loop goes on
FetchPageFailIgnored(kind) ==
  /\ MayRequestPage
  /\ pageRequests' = Append(pageRequests, cursor)
  /\ pageLog' = Append(pageLog, [error |-> kind])
  /\ UNCHANGED <<actionVars, allProducts, cursor, hasNextPage, delays, collected,
                 submitVars, reconcileVars, pageVars>>

\* faulty variant of FetchPageFail: the pages fetched so far are returned
FetchPageFailPartial(kind) ==
  /\ MayRequestPage
  /\ pageRequests' = Append(pageRequests, cursor)
  /\ pageLog' = Append(pageLog, [error |-> kind])
  /\ hasNextPage' = FALSE
  /\ pc' = "collected"
  /\ collected' = Some(allProducts)
  /\ UNCHANGED <<catalog, formData, TAG, queryString, actionData, allProducts, cursor,
                 delays, submitVars, reconcileVars, pageVars>>

\* a page request that fails: the loop rethrows, the action's catch returns
FetchPageFail(kind) ==
  /\ MayRequestPage
  /\ pageRequests' = Append(pageRequests, cursor)
  /\ pageLog' = Append(pageLog, [error |-> kind])
  /\ hasNextPage' = FALSE
  /\ Return(ActionError(CatchMessage(formData.action, PageFailureMessage(kind))))
  /\ UNCHANGED <<catalog, formData, TAG, queryString, allProducts, cursor, delays,
                 collected, submitVars, reconcileVars, pageVars>>

-----------------------------------------------------------------------------
(* action.server.ts: from the collected products to the bulk operation *)

\* faulty variant of PlanMutation: an empty plan is submitted like any other
PlanMutationAlwaysSubmits ==
  /\ pc = "collected"
  /\ LET products == collected[1]
         totalFiltered == Len(products)
         lines == JsonlLines(products, TAG[1], formData.action)
         summary == PreRunSummary(totalFiltered, Len(lines), TAG[1], formData.action)
     IN IF totalFiltered = 0
        THEN /\ Return(ActionError(NoProductsMessage(formData.action)))
             /\ UNCHANGED submitVars
        ELSE /\ jsonlLines' = lines
             /\ preRunSummary' = Some(summary)
             /\ calls' = [calls EXCEPT !.staged = @ + 1]
             /\ callLog' = Append(callLog, Call("staged", "request"))
             /\ pc' = "staged"
             /\ UNCHANGED <<keyParam, uploaded, actionData>>
  /\ UNCHANGED <<catalog, formData, TAG, queryString, collectorVars, reconcileVars,
                 pageVars>>

\* after the collection: plan, and return or ask for the staged upload target
PlanMutation ==
  /\ pc = "collected"
  /\ LET products == collected[1]
         totalFiltered == Len(products)
         lines == JsonlLines(products, TAG[1], formData.action)
         totalProcessed == Len(lines)
         summary == PreRunSummary(totalFiltered, totalProcessed, TAG[1], formData.action)
     IN IF totalFiltered = 0
        THEN /\ Return(ActionError(NoProductsMessage(formData.action)))
             /\ UNCHANGED submitVars
        ELSE /\ jsonlLines' = lines
             /\ preRunSummary' = Some(summary)
             /\ IF totalProcessed = 0
                THEN /\ Return(ActionNothingToDo(summary))
                     /\ UNCHANGED <<keyParam, calls, uploaded, callLog>>
                ELSE /\ calls' = [calls EXCEPT !.staged = @ + 1]
                     /\ callLog' = Append(callLog, Call("staged", "request"))
                     /\ pc' = "staged"
                     /\ UNCHANGED <<keyParam, uploaded, actionData>>
  /\ UNCHANGED <<catalog, formData, TAG, queryString, collectorVars, reconcileVars,
                 pageVars>>

\* the action's catch block
Fail(message) ==
  Return(ActionError(CatchMessage(formData.action, message)))

\* stagedUploadsCreate answered with a target: the file is posted to it
StagedUploadOk(withKey) ==
  /\ pc = "staged"
  /\ keyParam' = IF withKey THEN Some("tmp/bulk_tag_vars") ELSE None
  /\ calls' = [calls EXCEPT !.upload = @ + 1]
  /\ callLog' = callLog \o <<Call("staged", "ok"), Call("upload", "request")>>
  /\ uploaded' = Some(jsonlLines)
  /\ pc' = "upload"
  /\ UNCHANGED <<catalog, formData, TAG, queryString, actionData, collectorVars,
                 jsonlLines, preRunSummary, reconcileVars, pageVars>>

StagedFailures == {"thrown", "errors", "userErrors"}

StagedUploadFail(kind) ==
  /\ pc = "staged"
  /\ Fail(IF kind = "thrown" THEN "fetch failed" ELSE "Failed to create staged upload")
  /\ callLog' = Append(callLog, Call("staged", "failed"))
  /\ UNCHANGED <<catalog, formData, TAG, queryString, collectorVars, jsonlLines,
                 preRunSummary, keyParam, calls, uploaded, reconcileVars, pageVars>>

\* the upload answered ok: the bulk operation is started, unless no key came
UploadOk ==
  /\ pc = "upload"
  /\ IF keyParam = None
     THEN /\ Fail("Upload key not found")
          /\ callLog' = Append(callLog, Call("upload", "ok"))
          /\ UNCHANGED calls
     ELSE /\ calls' = [calls EXCEPT !.bulkRun = @ + 1]
          /\ callLog' = callLog \o <<Call("upload", "ok"), Call("bulkRun", "request")>>
          /\ pc' = "bulkRun"
          /\ UNCHANGED actionData
  /\ UNCHANGED <<catalog, formData, TAG, queryString, collectorVars, jsonlLines,
                 preRunSummary, keyParam, uploaded, reconcileVars, pageVars>>

UploadFailures == {"thrown", "notOk"}

\* faulty variant of UploadFail: the job is started although the upload failed
UploadFailIgnored(kind) ==
  /\ pc = "upload"
  /\ calls' = [calls EXCEPT !.bulkRun = @ + 1]
  /\ callLog' = callLog \o <<Call("upload", "failed"), Call("bulkRun", "request")>>
  /\ pc' = "bulkRun"
  /\ UNCHANGED <<catalog, formData, TAG, queryString, actionData, collectorVars,
                 jsonlLines, preRunSummary, keyParam, uploaded, reconcileVars, pageVars>>

UploadFail(kind) ==
  /\ pc = "upload"
  /\ Fail(IF kind = "thrown" THEN "fetch failed" ELSE "Failed to upload JSONL file")
  /\ callLog' = Append(callLog, Call("upload", "failed"))
  /\ UNCHANGED <<catalog, formData, TAG, queryString, collectorVars, jsonlLines,
                 preRunSummary, keyParam, calls, uploaded, reconcileVars, pageVars>>

\* bulkOperationRunMutation answered with the operation
BulkRunOk(id) ==
  /\ pc = "bulkRun"
  /\ Return(ActionStarted(id, preRunSummary[1]))
  /\ callLog' = Append(callLog, Call("bulkRun", "ok"))
  /\ UNCHANGED <<catalog, formData, TAG, queryString, collectorVars, jsonlLines,
                 preRunSummary, keyParam, calls, uploaded, reconcileVars, pageVars>>

BulkRunFailures == {"thrown", "errors", "userErrors"}

BulkRunFailureMessage(kind) ==
  CASE kind = "thrown" -> "fetch failed"
    [] kind = "errors" -> "Failed to create bulk operation: Unknown Shopify API error."
    [] OTHER -> "Failed to create bulk operation: A bulk mutation operation is already in progress."

BulkRunFail(kind) ==
  /\ pc = "bulkRun"
  /\ Fail(BulkRunFailureMessage(kind))
  /\ callLog' = Append(callLog, Call("bulkRun", "failed"))
  /\ UNCHANGED <<catalog, formData, TAG, queryString, collectorVars, jsonlLines,
                 preRunSummary, keyParam, calls, uploaded, reconcileVars, pageVars>>

-----------------------------------------------------------------------------
(* app.addTags.tsx: the component's effect on actionData *)

\* the context the client keeps for a started job
ContextOf(summary) ==
  [totalFiltered |-> summary.total, totalProcessed |-> summary.updated,
   tag |-> summary.tag]

\* the summary shown for an error without a job handle
ErrorSummary(message) ==
  [updated |-> 0, alreadyHadTag |-> 0, failed |-> 0, total |-> 0, tag |-> message]

\* useEffect(..., [actionData]): runs once for each value the action returned,
\* when the action has returned and, where the page's loader is modelled, the
\* loader has been called again
ActionDataEffect ==
  /\ pc \in {"done", "loaded"}
  /\ actionData # None
  /\ seenActionData # actionData
  /\ seenActionData' = actionData
  /\ LET data == actionData[1]
     IN IF data.error # None /\ data.bulkOperationId = None
        THEN /\ currentSummary' = Some(ErrorSummary(data.error[1]))
             /\ UNCHANGED <<bulkOpId, bulkOpContext>>
        ELSE IF data.preRunSummary # None
        THEN /\ currentSummary' = data.preRunSummary
             /\ IF data.bulkOperationId # None
                THEN /\ bulkOpId' = data.bulkOperationId
                     /\ bulkOpContext' = Some(ContextOf(data.preRunSummary[1]))
                ELSE UNCHANGED <<bulkOpId, bulkOpContext>>
        ELSE UNCHANGED <<bulkOpId, bulkOpContext, currentSummary>>
  /\ effectPending' = (effectPending \/ bulkOpId' # bulkOpId
                                     \/ bulkOpContext' # bulkOpContext)
  /\ UNCHANGED <<actionVars, collectorVars, submitVars, reconcileVars, loaderVars,
                 pollSent, pollTimer>>

Next ==
  \/ ActionStart
  \/ \E edges \in PageEdges, next \in BOOLEAN, endCursor \in Cursors :
       FetchPageOk(edges, next, Some(endCursor))
  \/ \E kind \in PageFailures : FetchPageFail(kind)
  \/ PlanMutation
  \/ \E withKey \in BOOLEAN : StagedUploadOk(withKey)
  \/ \E kind \in StagedFailures : StagedUploadFail(kind)
  \/ UploadOk
  \/ \E kind \in UploadFailures : UploadFail(kind)
  \/ \E id \in JobIds : BulkRunOk(id)
  \/ \E kind \in BulkRunFailures : BulkRunFail(kind)
  \/ ActionDataEffect

Spec == Init /\ [][Next]_vars

-----------------------------------------------------------------------------
(* bulkResultsProcessor.ts: processBulkOperationResults *)

\* One line of the result file: an empty line, a line of blanks, a line that is
\* no JSON, the JSON literal null, another JSON value that is no object (a
\* number, a string, true), or a JSON object.  errors: the object has a truthy
\* `errors`; userErrors: the length of productUpdate.userErrors, None when it
\* has none.
EmptyLine == [text |-> "empty"]
SpaceLine == [text |-> "space"]
MalformedLine == [text |-> "malformed"]
NullLine == [text |-> "null"]
ScalarLine == [text |-> "scalar"]
JsonLine(errors, userErrors) ==
  [text |-> "json", errors |-> errors, userErrors |-> userErrors]

ResultLines ==
  { EmptyLine, SpaceLine, MalformedLine, NullLine, ScalarLine,
    JsonLine(FALSE, None), JsonLine(FALSE, Some(0)),
    JsonLine(FALSE, Some(1)), JsonLine(TRUE, None) }

IsWhitespaceLine(line) == line.text \in {"empty", "space"}

RECURSIVE TrimLinesStart(_)
TrimLinesStart(text) ==
  IF text # <<>> /\ IsWhitespaceLine(Head(text)) THEN TrimLinesStart(Tail(text)) ELSE text

RECURSIVE TrimLinesEnd(_)
TrimLinesEnd(text) ==
  IF text # <<>> /\ IsWhitespaceLine(text[Len(text)])
  THEN TrimLinesEnd(SubSeq(text, 1, Len(text) - 1))
  ELSE text

\* .filter(Boolean): the empty string is the only falsy line
RECURSIVE FilterBoolean(_)
FilterBoolean(text) ==
  IF text = <<>> THEN <<>>
  ELSE (IF Head(text).text # "empty" THEN <<Head(text)>> ELSE <<>>)
       \o FilterBoolean(Tail(text))

\* resultsText.trim().split("\n").filter(Boolean)
SplitLines(text) == FilterBoolean(TrimLinesEnd(TrimLinesStart(text)))

\* JSON.parse(line) throws
ParseThrows(line) == line.text \in {"empty", "space", "malformed"}

\* reading result.errors throws: result is null
ReadThrows(line) == line.text = "null"

\* faulty variant of LineFailed: userErrors are not looked at
LineFailedIgnoresUserErrors(line) ==
  \/ ParseThrows(line)
  \/ ReadThrows(line)
  \/ (line.text = "json" /\ line.errors)

\* failedMutations++: the catch block, or hasRootErrors || hasUserErrors; the
\* properties of a number, a string or a boolean read as undefined
LineFailed(line) ==
  \/ ParseThrows(line)
  \/ ReadThrows(line)
  \/ /\ line.text = "json"
     /\ \/ line.errors
        \/ (line.userErrors # None /\ line.userErrors[1] > 0)

RECURSIVE CountFailed(_)
CountFailed(lines) ==
  IF lines = <<>> THEN 0
  ELSE (IF LineFailed(Head(lines)) THEN 1 ELSE 0) + CountFailed(Tail(lines))

\* faulty variant of CountSuccessful: the loop ends at the first failing line
RECURSIVE CountSuccessfulUntilFailure(_)
CountSuccessfulUntilFailure(lines) ==
  IF lines = <<>> \/ LineFailed(Head(lines)) THEN 0
  ELSE 1 + CountSuccessfulUntilFailure(Tail(lines))

RECURSIVE CountSuccessful(_)
CountSuccessful(lines) ==
  IF lines = <<>> THEN 0
  ELSE (IF LineFailed(Head(lines)) THEN 0 ELSE 1) + CountSuccessful(Tail(lines))

\* alreadyHadTag < 0 ? 0 : alreadyHadTag
ClampSkipped(alreadyHadTag) == IF alreadyHadTag < 0 THEN 0 ELSE alreadyHadTag

\* the summary of the try block
NormalSummary(text, ctx) ==
  LET lines == SplitLines(text)
      successfulMutations == CountSuccessful(lines)
      failedMutations == CountFailed(lines)
      totalMutationsAttempted == successfulMutations + failedMutations
      alreadyHadTag == ctx.totalFiltered - totalMutationsAttempted
  IN [updated |-> successfulMutations,
      alreadyHadTag |-> ClampSkipped(alreadyHadTag),
      failed |-> failedMutations,
      total |-> ctx.totalFiltered,
      tag |-> ctx.tag]

\* the summary of the catch block
FallbackSummary(ctx) ==
  [updated |-> 0,
   alreadyHadTag |-> ctx.totalFiltered - ctx.totalProcessed,
   failed |-> ctx.totalProcessed,
   total |-> ctx.totalFiltered,
   tag |-> ctx.tag]

FetchOutcomes == {"ok", "notOk", "thrown"}

\* faulty variant of ProcessBulkOperationResults: response.ok is not looked at
ProcessWithoutOkCheck(outcome, text, ctx) ==
  IF outcome # "thrown" THEN NormalSummary(text, ctx) ELSE FallbackSummary(ctx)

\* fetch, then the try block or the catch block
ProcessBulkOperationResults(outcome, text, ctx) ==
  IF outcome = "ok" THEN NormalSummary(text, ctx) ELSE FallbackSummary(ctx)

\* the job contexts a status-check request may carry
JobContexts ==
  [totalFiltered : 0..MaxCount, totalProcessed : 0..MaxCount, tag : {taga, tagb}]

\* A status check found the operation COMPLETED with a result url: the
\* reconciler is about to run on the context the request carried.
InitReconcile ==
  /\ catalog \in {[id \in ProductIds |-> <<>>]}
  /\ formData = None
  /\ pc = "reconcile"
  /\ TAG = None
  /\ queryString = None
  /\ allProducts = <<>>
  /\ cursor = None
  /\ hasNextPage = FALSE
  /\ pageRequests = <<>>
  /\ pageLog = <<>>
  /\ delays = 0
  /\ collected = None
  /\ jsonlLines = <<>>
  /\ preRunSummary = None
  /\ keyParam = None
  /\ calls = NoCalls
  /\ uploaded = None
  /\ callLog = <<>>
  /\ actionData = None
  /\ opContext \in {Some(ctx) : ctx \in JobContexts}
  /\ resultsText = <<>>
  /\ finalSummary = None
  /\ searchParams = None
  /\ currentOp = None
  /\ loaderData = LoaderReturn(None, None)
  /\ resultFetches = 0
  /\ bulkOpId = None
  /\ bulkOpContext = None
  /\ currentSummary = None
  /\ seenActionData = None
  /\ pollSent = None
  /\ pollTimer = 0
  /\ effectPending = FALSE
  /\ statusQueries = <<>>
  /\ lastServed = None

\* the platform wrote one more line to the result file before it completed
ResultLineWritten(line) ==
  /\ pc = "reconcile"
  /\ Len(resultsText) < MaxLines
  /\ resultsText' = Append(resultsText, line)
  /\ UNCHANGED <<actionVars, collectorVars, submitVars, opContext, finalSummary,
                 pageVars>>

\* processBulkOperationResults runs: the fetch of the file ends one way or another
Reconcile(outcome) ==
  /\ pc = "reconcile"
  /\ finalSummary' = Some([path |-> IF outcome = "ok" THEN "normal" ELSE "fallback",
                           fetch |-> outcome,
                           summary |-> ProcessBulkOperationResults(outcome, resultsText,
                                                                  opContext[1])])
  /\ pc' = "reconciled"
  /\ UNCHANGED <<catalog, formData, TAG, queryString, actionData, collectorVars,
                 submitVars, opContext, resultsText, pageVars>>

NextReconcile ==
  \/ \E line \in ResultLines : ResultLineWritten(line)
  \/ \E outcome \in FetchOutcomes : Reconcile(outcome)

SpecReconcile == InitReconcile /\ [][NextReconcile]_vars

-----------------------------------------------------------------------------
(* The status poll: the component's poll effect, the loader's status-check
   branch and getInitialStates *)

Digits == <<"0", "1", "2", "3", "4", "5", "6", "7", "8", "9">>
IsDigit(c) == \E d \in 1..10 : Digits[d] = c
DigitValue(c) == (CHOOSE d \in 1..10 : Digits[d] = c) - 1

\* n.toString() of a non-negative integer
RECURSIVE NumberToString(_)
NumberToString(n) ==
  IF n < 10 THEN <<Digits[n + 1]>>
  ELSE Append(NumberToString(n \div 10), Digits[(n % 10) + 1])

RECURSIVE ParseDigits(_, _)
ParseDigits(s, value) ==
  IF s = <<>> \/ ~IsDigit(Head(s)) THEN value
  ELSE ParseDigits(Tail(s), 10 * value + DigitValue(Head(s)))

\* parseInt(s, 10) of a string that starts with a digit, the only strings the
\* requests below carry: the value of its leading digits
ParseInt(s) == ParseDigits(s, 0)

ParamKeys == {"checkStatus", "totalFiltered", "totalProcessed", "appliedTag"}

\* new URLSearchParams()
NoParams == [k \in ParamKeys |-> None]

\* the poll effect's params
PollParams(context) ==
  IF context = None
  THEN [NoParams EXCEPT !.checkStatus = Some("true")]
  ELSE [checkStatus |-> Some("true"),
        totalFiltered |-> Some(NumberToString(context[1].totalFiltered)),
        totalProcessed |-> Some(NumberToString(context[1].totalProcessed)),
        appliedTag |-> Some(context[1].tag)]

\* the same request without some of its parameters
Drop(params, keys) == [k \in ParamKeys |-> IF k \in keys THEN None ELSE params[k]]

\* searchParams.get(key): None is null
Param(params, key) == IF key \in DOMAIN params THEN params[key] ELSE None

\* searchParams.get(key) || fallback
GetOr(params, key, fallback) ==
  IF Param(params, key) = None \/ Param(params, key)[1] = <<>>
  THEN fallback
  ELSE Param(params, key)[1]

\* searchParams.get("checkStatus") === "true"
CheckStatus(params) == Param(params, "checkStatus") = Some("true")

\* searchParams.get("preview") === "true"
Preview(params) == Param(params, "preview") = Some("true")

\* keyword, productType and collectionHandle as the loader reads them
Filters(params) ==
  [keyword |-> GetOr(params, "keyword", <<>>),
   productType |-> GetOr(params, "productType", <<>>),
   collectionHandle |-> GetOr(params, "collectionHandle", <<>>)]

\* totalFiltered, totalProcessed and appliedTag as the loader and
\* getInitialStates read them
DecodeContext(params) ==
  [totalFiltered |-> ParseInt(GetOr(params, "totalFiltered", <<"0">>)),
   totalProcessed |-> ParseInt(GetOr(params, "totalProcessed", <<"0">>)),
   tag |-> GetOr(params, "appliedTag", <<>>)]

Statuses == {"CREATED", "RUNNING", "COMPLETED", "FAILED", "CANCELED"}
TerminalStatuses == {"COMPLETED", "FAILED", "CANCELED"}

ResultUrl == "https://storage.example/result.jsonl"

\* what currentBulkOperation may be: nothing, or an operation; only a
\* COMPLETED operation may have a result url
PlatformOps ==
  {None} \cup
  { Some([id |-> id, status |-> st, url |-> u]) :
      id \in JobIds, st \in Statuses, u \in {None} }
  \cup { Some([id |-> id, status |-> "COMPLETED", url |-> Some(ResultUrl)]) : id \in JobIds }

\* the contexts of started jobs: at least one product was submitted
StartedContexts == {ctx \in JobContexts : 1 <= ctx.totalProcessed /\ ctx.totalProcessed <= ctx.totalFiltered}

\* the result files a fetch may find
ResultFiles ==
  { <<>>,
    <<JsonLine(FALSE, None)>>,
    <<JsonLine(FALSE, Some(1))>>,
    <<JsonLine(FALSE, None), MalformedLine>> }

requestVars == <<catalog, formData, TAG, queryString, actionData, collectorVars, submitVars>>

\* status === "COMPLETED" || status === "FAILED" || status === "CANCELED"
\* faulty variant of IsTerminal: only COMPLETED ends the polling
IsTerminalOnlyCompleted(status) == status # None /\ status[1].status = "COMPLETED"

IsTerminal(status) == status # None /\ status[1].status \in TerminalStatuses

\* faulty variant of ShouldReconcile: any reported operation is reconciled
ShouldReconcileAnyStatus(status, context) ==
  /\ status # None
  /\ context.tag # <<>>

\* bulkOpStatus?.status === "COMPLETED" && bulkOpStatus.url && appliedTag
ShouldReconcile(status, context) ==
  /\ status # None
  /\ status[1].status = "COMPLETED"
  /\ status[1].url # None
  /\ context.tag # <<>>

\* stateManager.ts: getInitialStates; window: typeof window !== "undefined"
GetInitialStates(data, params, window) ==
  LET status == data.bulkOperationStatus
      context == DecodeContext(params)
  IN IF window /\ CheckStatus(params) /\ status # None /\ ~IsTerminal(status)
     THEN [initialBulkOpId |-> Some(status[1].id),
           initialBulkOpContext |-> Some(context),
           initialSummary |-> Some([updated |-> context.totalProcessed,
                                    alreadyHadTag |-> context.totalFiltered
                                                      - context.totalProcessed,
                                    failed |-> 0,
                                    total |-> context.totalFiltered,
                                    tag |-> context.tag])]
     ELSE [initialBulkOpId |-> None,
           initialBulkOpContext |-> None,
           initialSummary |-> data.finalSummary]

\* The component after a submission (apply or remove) that started a job: it
\* holds the handle, the context and the pre-run summary; the platform's
\* current operation is that job, another one, or none.
InitPoll ==
  /\ catalog \in {[id \in ProductIds |-> <<>>]}
  /\ formData \in [action : {"applyTag", "removeTag"}]
  /\ pc = "page"
  /\ TAG = None
  /\ queryString = None
  /\ allProducts = <<>>
  /\ cursor = None
  /\ hasNextPage = FALSE
  /\ pageRequests = <<>>
  /\ pageLog = <<>>
  /\ delays = 0
  /\ collected = None
  /\ jsonlLines = <<>>
  /\ preRunSummary = None
  /\ keyParam = None
  /\ calls = NoCalls
  /\ uploaded = None
  /\ callLog = <<>>
  /\ actionData = None
  /\ opContext = None
  /\ resultsText = None
  /\ finalSummary = None
  /\ searchParams = NoParams
  /\ currentOp \in PlatformOps
  /\ loaderData = LoaderReturn(None, None)
  /\ resultFetches = 0
  /\ bulkOpId \in {Some(id) : id \in JobIds}
  /\ bulkOpContext \in {Some(ctx) : ctx \in StartedContexts}
  /\ currentSummary = Some(PreRunSummary(bulkOpContext[1].totalFiltered,
                                         bulkOpContext[1].totalProcessed,
                                         bulkOpContext[1].tag, formData.action))
  /\ seenActionData = None
  /\ pollSent = None
  /\ pollTimer = 0
  /\ effectPending = TRUE
  /\ statusQueries = <<>>
  /\ lastServed = None

\* the effect's dependencies differ between two loader responses: a status
\* or a summary, when present, is a new object in every response
DepsChanged(old, new) ==
  \/ old.bulkOperationStatus # None
  \/ new.bulkOperationStatus # None
  \/ old.finalSummary # None
  \/ new.finalSummary # None

\* faulty variant of ClearTimeout: the pending timer is left alone
KeepTimeout(timers) == timers

\* the effect's cleanup: clearTimeout(timer)
ClearTimeout(timers) == 0

\* faulty variant of PollEffect: the final summary is shown, the job state is kept
PollEffectKeepsHandle ==
  /\ effectPending
  /\ IF bulkOpId # None /\ ~IsTerminal(loaderData.bulkOperationStatus)
     THEN /\ pollTimer' = ClearTimeout(pollTimer) + 1
          /\ pollSent' = Some([bulkOpId |-> bulkOpId, bulkOpContext |-> bulkOpContext])
          /\ effectPending' = FALSE
          /\ UNCHANGED <<bulkOpId, bulkOpContext, currentSummary>>
     ELSE /\ pollTimer' = ClearTimeout(pollTimer)
          /\ IF loaderData.finalSummary # None
             THEN /\ currentSummary' = loaderData.finalSummary
                  /\ effectPending' = FALSE
                  /\ UNCHANGED <<bulkOpId, bulkOpContext>>
             ELSE /\ effectPending' = FALSE
                  /\ UNCHANGED <<bulkOpId, bulkOpContext, currentSummary>>
          /\ UNCHANGED pollSent
  /\ UNCHANGED <<actionVars, collectorVars, submitVars, reconcileVars, loaderVars,
                 seenActionData>>

\* useEffect(..., [bulkOpId, loaderData.bulkOperationStatus,
\* loaderData.finalSummary, bulkOpContext, submit]): the cleanup of the
\* previous run, then either the timer of the next poll is set or the final
\* summary is taken over.  submit keeps its identity from render to render.
PollEffect ==
  /\ effectPending
  /\ IF bulkOpId # None /\ ~IsTerminal(loaderData.bulkOperationStatus)
     THEN /\ pollTimer' = ClearTimeout(pollTimer) + 1
          /\ pollSent' = Some([bulkOpId |-> bulkOpId, bulkOpContext |-> bulkOpContext])
          /\ effectPending' = FALSE
          /\ UNCHANGED <<bulkOpId, bulkOpContext, currentSummary>>
     ELSE /\ pollTimer' = ClearTimeout(pollTimer)
          /\ IF loaderData.finalSummary # None
             THEN /\ currentSummary' = loaderData.finalSummary
                  /\ bulkOpId' = None
                  /\ bulkOpContext' = None
                  /\ effectPending' = (bulkOpId # None \/ bulkOpContext # None)
             ELSE /\ effectPending' = FALSE
                  /\ UNCHANGED <<bulkOpId, bulkOpContext, currentSummary>>
          /\ UNCHANGED pollSent
  /\ UNCHANGED <<actionVars, collectorVars, submitVars, reconcileVars, loaderVars,
                 seenActionData>>

\* setTimeout(() => submit(params, {method: "get", replace: true}), 3000)
\* fires; a timer does not fire between a change of the dependencies and the
\* effect run that follows it
PollTimerFires ==
  /\ pollTimer > 0
  /\ ~effectPending
  /\ pc \in {"page", "loaded", "mounted"}
  /\ pollTimer' = pollTimer - 1
  /\ searchParams' = PollParams(pollSent[1].bulkOpContext)
  /\ pc' = "request"
  /\ UNCHANGED <<requestVars, reconcileVars, currentOp, loaderData, resultFetches,
                 statusQueries, lastServed, bulkOpId, bulkOpContext, currentSummary,
                 seenActionData, pollSent, effectPending>>

\* handleClearFilters: the job state is dropped and a request without
\* parameters is submitted
HandleClearFilters ==
  /\ pc \in {"page", "loaded", "mounted"}
  /\ ~effectPending
  /\ currentSummary' = None
  /\ bulkOpId' = None
  /\ bulkOpContext' = None
  /\ effectPending' = (bulkOpId # None \/ bulkOpContext # None)
  /\ searchParams' = NoParams
  /\ pc' = "request"
  /\ UNCHANGED <<requestVars, reconcileVars, currentOp, loaderData, resultFetches,
                 statusQueries, lastServed, seenActionData, pollSent, pollTimer>>

\* the request reaches the loader without some of the parameters (a reload of
\* a shortened or hand-written URL)
UrlParamsDropped(keys) ==
  /\ pc = "request"
  /\ DOMAIN searchParams = ParamKeys
  /\ Drop(searchParams, keys) # searchParams
  /\ searchParams' = Drop(searchParams, keys)
  /\ UNCHANGED <<actionVars, collectorVars, submitVars, reconcileVars, currentOp,
                 loaderData, resultFetches, statusQueries, lastServed, clientVars>>

StatusAnswers == {"ok", "thrown"}

\* the loader returns: the component is rendered with the new loaderData
Deliver(data) ==
  /\ loaderData' = data
  /\ effectPending' = (effectPending \/ DepsChanged(loaderData, data))
  /\ pc' = "loaded"

\* the loader's return value on the paths that fetch no products
LoaderData(filters, status, summary) ==
  [LoaderReturn(status, summary) EXCEPT !.filters = filters]

\* faulty variant of StatusQueriesOf: the status is asked for a second time
StatusQueriesRetried(params, answer) ==
  IF CheckStatus(params) THEN <<answer, answer>> ELSE <<>>

\* the status queries the loader sends for one request, with their answers
StatusQueriesOf(params, answer) ==
  IF CheckStatus(params) THEN <<answer>> ELSE <<>>

\* faulty variant of ReturnsEmpty: the query string is not looked at
ReturnsEmptyWithoutPreview(params, query) == ~Preview(params)

\* !preview || !queryString
ReturnsEmpty(params, query) == ~Preview(params) \/ query = None

\* loader: the parameters are read; on a status check the platform is asked,
\* and the loader returns unless the result file is to be fetched; without a
\* status check, or when the status query throws, the loader returns the
\* empty page unless a preview of a non-blank filter is asked for, whose
\* products are then collected.
LoaderStart(answer) ==
  /\ pc = "request"
  /\ ~CheckStatus(searchParams) => answer = "ok"
  /\ LET context == DecodeContext(searchParams)
         filters == Filters(searchParams)
         query == BuildProductQuery(filters)
         asked == CheckStatus(searchParams) /\ answer = "ok"
     IN /\ opContext' = Some(context)
        /\ queryString' = query
        /\ statusQueries' = StatusQueriesOf(searchParams, answer)
        /\ IF asked
           THEN /\ hasNextPage' = FALSE
                /\ IF ShouldReconcile(currentOp, context)
                   THEN /\ pc' = "results"
                        /\ UNCHANGED <<loaderData, effectPending>>
                   ELSE Deliver(LoaderData(filters, currentOp, None))
           ELSE IF ReturnsEmpty(searchParams, query)
           THEN /\ hasNextPage' = FALSE
                /\ Deliver(LoaderData(filters, None, None))
           ELSE /\ hasNextPage' = TRUE
                /\ pc' = "collect"
                /\ UNCHANGED <<loaderData, effectPending>>
  /\ allProducts' = <<>>
  /\ cursor' = None
  /\ pageRequests' = <<>>
  /\ pageLog' = <<>>
  /\ delays' = 0
  /\ collected' = None
  /\ resultsText' = None
  /\ finalSummary' = None
  /\ resultFetches' = 0
  /\ UNCHANGED <<catalog, formData, TAG, actionData, submitVars, searchParams,
                 currentOp, lastServed, bulkOpId, bulkOpContext, currentSummary,
                 seenActionData, pollSent, pollTimer>>

\* loader: processBulkOperationResults has fetched, or failed to fetch, the
\* result file; the loader returns its summary
LoaderResults(outcome, text) ==
  /\ pc = "results"
  /\ outcome # "ok" => text = <<>>
  /\ resultFetches' = resultFetches + 1
  /\ resultsText' = text
  /\ LET summary == ProcessBulkOperationResults(outcome, text, opContext[1])
     IN /\ finalSummary' = Some([path |-> IF outcome = "ok" THEN "normal" ELSE "fallback",
                                 fetch |-> outcome,
                                 summary |-> summary])
        /\ Deliver(LoaderData(Filters(searchParams), currentOp, Some(summary)))
  /\ UNCHANGED <<requestVars, opContext, searchParams, currentOp, statusQueries,
                 lastServed, bulkOpId, bulkOpContext, currentSummary, seenActionData,
                 pollSent, pollTimer>>

\* the page is loaded anew at the request's URL: the component state starts
\* from getInitialStates, nothing of the old page is left
Mount(window) ==
  /\ pc = "loaded"
  /\ LET initial == GetInitialStates(loaderData, searchParams, window)
     IN /\ bulkOpId' = initial.initialBulkOpId
        /\ bulkOpContext' = initial.initialBulkOpContext
        /\ currentSummary' = initial.initialSummary
  /\ pollTimer' = 0
  /\ effectPending' = TRUE
  /\ pc' = "mounted"
  /\ UNCHANGED <<requestVars, reconcileVars, loaderVars, seenActionData, pollSent>>

NextPoll ==
  \/ PollEffect
  \/ PollTimerFires
  \/ HandleClearFilters
  \/ \E keys \in SUBSET ParamKeys : UrlParamsDropped(keys)
  \/ \E answer \in StatusAnswers : LoaderStart(answer)
  \/ \E outcome \in FetchOutcomes, text \in ResultFiles : LoaderResults(outcome, text)
  \/ \E window \in BOOLEAN : Mount(window)

SpecPoll == InitPoll /\ [][NextPoll]_vars

-----------------------------------------------------------------------------
(* app.addTags.tsx: a submission made on a page whose URL may still carry the
   status-check parameters of an earlier job *)

\* handleApplyTag or handleRemoveTag has cleared the summary and posted the
\* form to the page's URL; the action has started a job, which the platform
\* reports as its current operation, and the page's loader is called again
\* with the URL's parameters: none, or the poll parameters of an earlier job.
InitResubmit ==
  /\ catalog \in {[id \in ProductIds |-> <<>>]}
  /\ formData \in [action : {"applyTag", "removeTag"}]
  /\ pc = "request"
  /\ TAG = None
  /\ queryString = None
  /\ allProducts = <<>>
  /\ cursor = None
  /\ hasNextPage = FALSE
  /\ pageRequests = <<>>
  /\ pageLog = <<>>
  /\ delays = 0
  /\ collected = None
  /\ jsonlLines = <<>>
  /\ preRunSummary = None
  /\ keyParam = None
  /\ calls = NoCalls
  /\ uploaded = None
  /\ callLog = <<>>
  /\ actionData \in
       { Some(ActionStarted(id, PreRunSummary(ctx.totalFiltered, ctx.totalProcessed,
                                              ctx.tag, formData.action))) :
           id \in JobIds, ctx \in StartedContexts }
  /\ opContext = None
  /\ resultsText = None
  /\ finalSummary = None
  /\ searchParams \in {NoParams} \cup {PollParams(Some(ctx)) : ctx \in StartedContexts}
  /\ currentOp \in {op \in PlatformOps \ {None} : Some(op[1].id) = actionData[1].bulkOperationId}
  /\ loaderData = LoaderReturn(None, None)
  /\ resultFetches = 0
  /\ bulkOpId = None
  /\ bulkOpContext = None
  /\ currentSummary = None
  /\ seenActionData = None
  /\ pollSent = None
  /\ pollTimer = 0
  /\ effectPending = FALSE
  /\ statusQueries = <<>>
  /\ lastServed = None

NextResubmit ==
  \/ \E answer \in StatusAnswers : LoaderStart(answer)
  \/ \E outcome \in FetchOutcomes, text \in ResultFiles : LoaderResults(outcome, text)
  \/ ActionDataEffect
  \/ PollEffect
  \/ PollTimerFires

SpecResubmit == InitResubmit /\ [][NextResubmit]_vars

-----------------------------------------------------------------------------
(* loader.server.ts: the loader on every request, the preview included *)

PREVIEW_COUNT == 10

\* products.slice(0, count)
Slice(products, count) ==
  SubSeq(products, 1, IF Len(products) < count THEN Len(products) ELSE count)

\* the requests a loader may receive
LoaderRequests ==
  [checkStatus : {None, Some("true")},
   preview : {None, Some("true")},
   keyword : {None, Some(<<" ">>), Some(<<"s">>)},
   productType : {None, Some(<<"t">>)},
   collectionHandle : {None, Some(<<" ">>)},
   totalFiltered : {Some(<<"1">>)},
   totalProcessed : {Some(<<"1">>)},
   appliedTag : {None, Some(taga)}]

\* the pages the platform may answer a preview with
PreviewEdges == { <<>>, <<1, 2>> }

\* A request has arrived at the loader; no page is open.
InitLoader ==
  /\ catalog \in {[id \in ProductIds |-> <<tagb>>]}
  /\ formData = None
  /\ pc = "request"
  /\ TAG = None
  /\ queryString = None
  /\ allProducts = <<>>
  /\ cursor = None
  /\ hasNextPage = FALSE
  /\ pageRequests = <<>>
  /\ pageLog = <<>>
  /\ delays = 0
  /\ collected = None
  /\ jsonlLines = <<>>
  /\ preRunSummary = None
  /\ keyParam = None
  /\ calls = NoCalls
  /\ uploaded = None
  /\ callLog = <<>>
  /\ actionData = None
  /\ opContext = None
  /\ resultsText = None
  /\ finalSummary = None
  /\ searchParams \in LoaderRequests
  /\ currentOp \in PlatformOps
  /\ loaderData = LoaderReturn(None, None)
  /\ resultFetches = 0
  /\ bulkOpId = None
  /\ bulkOpContext = None
  /\ currentSummary = None
  /\ seenActionData = None
  /\ pollSent = None
  /\ pollTimer = 0
  /\ effectPending = FALSE
  /\ statusQueries = <<>>
  /\ lastServed = None

\* loader: a page request of the preview fails, the catch block returns
LoaderFetchPageFail(kind) ==
  /\ MayRequestPage
  /\ pageRequests' = Append(pageRequests, cursor)
  /\ pageLog' = Append(pageLog, [error |-> kind])
  /\ hasNextPage' = FALSE
  /\ Deliver([LoaderData(Filters(searchParams), None, None)
                EXCEPT !.error = Some(PageFailureMessage(kind))])
  /\ UNCHANGED <<catalog, formData, TAG, queryString, actionData, allProducts, cursor,
                 delays, collected, submitVars, reconcileVars, searchParams, currentOp,
                 resultFetches, statusQueries, lastServed, bulkOpId, bulkOpContext,
                 currentSummary, seenActionData, pollSent, pollTimer>>

\* loader: the preview returns the first PREVIEW_COUNT products and the count
LoaderPreview ==
  /\ pc = "collected"
  /\ Deliver([LoaderData(Filters(searchParams), None, None)
                EXCEPT !.products = Slice(collected[1], PREVIEW_COUNT),
                       !.totalCount = Len(collected[1]),
                       !.previewMode = TRUE])
  /\ UNCHANGED <<requestVars, reconcileVars, searchParams, currentOp, resultFetches,
                 statusQueries, lastServed, bulkOpId, bulkOpContext, currentSummary,
                 seenActionData, pollSent, pollTimer>>

\* loader: the platform never answers a page request of the preview; the
\* request is sent without a timeout or an abort signal and stays pending
PageFetchSilent ==
  /\ MayRequestPage
  /\ pageRequests' = Append(pageRequests, cursor)
  /\ pc' = "pending"
  /\ UNCHANGED <<catalog, formData, TAG, queryString, actionData, allProducts, cursor,
                 hasNextPage, pageLog, delays, collected, submitVars, reconcileVars,
                 pageVars>>

\* loader: the platform never answers the fetch of the result file; the fetch
\* is sent without a timeout or an abort signal and stays pending
ResultFetchSilent ==
  /\ pc = "results"
  /\ resultFetches' = resultFetches + 1
  /\ pc' = "pending"
  /\ UNCHANGED <<requestVars, reconcileVars, searchParams, currentOp, loaderData,
                 statusQueries, lastServed, clientVars>>

\* what one request met and what it returned
Served ==
  [statusQueries |-> statusQueries,
   pageLog |-> pageLog,
   resultFetches |-> resultFetches,
   resultsText |-> resultsText,
   fetch |-> IF finalSummary = None THEN None ELSE Some(finalSummary[1].fetch),
   loaderData |-> loaderData]

\* the same request is sent once more, the platform's operation unchanged
Reload ==
  /\ pc = "loaded"
  /\ lastServed = None
  /\ lastServed' = Some(Served)
  /\ pc' = "request"
  /\ UNCHANGED <<requestVars, reconcileVars, searchParams, currentOp, loaderData,
                 resultFetches, statusQueries, clientVars>>

NextLoader ==
  \/ \E answer \in StatusAnswers : LoaderStart(answer)
  \/ \E outcome \in FetchOutcomes, text \in ResultFiles : LoaderResults(outcome, text)
  \/ \E edges \in PreviewEdges, next \in BOOLEAN :
       FetchPageOk(edges, next, Some("c1"))
  \/ \E kind \in PageFailures : LoaderFetchPageFail(kind)
  \/ LoaderPreview
  \/ PageFetchSilent
  \/ ResultFetchSilent
  \/ Reload

SpecLoader == InitLoader /\ [][NextLoader]_vars

-----------------------------------------------------------------------------
(* queryBuilder.ts applied to every filter of up to MaxFieldLen characters *)

\* the characters a filter field is typed from
FilterChars == {" ", "s", "'", "\""}

FilterStrings == UNION {[1..n -> FilterChars] : n \in 0..MaxFieldLen}

\* a filter state has arrived; the query is not built yet
InitQuery ==
  /\ catalog \in {[id \in ProductIds |-> <<>>]}
  /\ formData \in [action : {"preview"},
                   filters : [keyword : FilterStrings, productType : FilterStrings,
                              collectionHandle : FilterStrings],
                   tagToApply : {<<>>}]
  /\ pc = "query"
  /\ TAG = None
  /\ queryString = None
  /\ allProducts = <<>>
  /\ cursor = None
  /\ hasNextPage = FALSE
  /\ pageRequests = <<>>
  /\ pageLog = <<>>
  /\ delays = 0
  /\ collected = None
  /\ jsonlLines = <<>>
  /\ preRunSummary = None
  /\ keyParam = None
  /\ calls = NoCalls
  /\ uploaded = None
  /\ callLog = <<>>
  /\ actionData = None
  /\ opContext = None
  /\ resultsText = None
  /\ finalSummary = None
  /\ searchParams = None
  /\ currentOp = None
  /\ loaderData = LoaderReturn(None, None)
  /\ resultFetches = 0
  /\ bulkOpId = None
  /\ bulkOpContext = None
  /\ currentSummary = None
  /\ seenActionData = None
  /\ pollSent = None
  /\ pollTimer = 0
  /\ effectPending = FALSE
  /\ statusQueries = <<>>
  /\ lastServed = None

\* const queryString = buildProductQuery(filters)
BuildQuery ==
  /\ pc = "query"
  /\ queryString' = BuildProductQuery(formData.filters)
  /\ pc' = "built"
  /\ UNCHANGED <<catalog, formData, TAG, actionData, collectorVars, submitVars,
                 reconcileVars, pageVars>>

NextQuery == BuildQuery

SpecQuery == InitQuery /\ [][NextQuery]_vars

-----------------------------------------------------------------------------
(* queryBuilder.ts: the exact-match fields on inputs with backslashes *)

EscapeChars == {"s", "'", "\\"}

EscapeStrings == UNION {[1..n -> EscapeChars] : n \in 0..MaxFieldLen}

\* a filter state without keyword has arrived; the query is not built yet
InitEscape ==
  /\ catalog \in {[id \in ProductIds |-> <<>>]}
  /\ formData \in [action : {"preview"},
                   filters : [keyword : {<<>>}, productType : EscapeStrings,
                              collectionHandle : EscapeStrings],
                   tagToApply : {<<>>}]
  /\ pc = "query"
  /\ TAG = None
  /\ queryString = None
  /\ allProducts = <<>>
  /\ cursor = None
  /\ hasNextPage = FALSE
  /\ pageRequests = <<>>
  /\ pageLog = <<>>
  /\ delays = 0
  /\ collected = None
  /\ jsonlLines = <<>>
  /\ preRunSummary = None
  /\ keyParam = None
  /\ calls = NoCalls
  /\ uploaded = None
  /\ callLog = <<>>
  /\ actionData = None
  /\ opContext = None
  /\ resultsText = None
  /\ finalSummary = None
  /\ searchParams = None
  /\ currentOp = None
  /\ loaderData = LoaderReturn(None, None)
  /\ resultFetches = 0
  /\ bulkOpId = None
  /\ bulkOpContext = None
  /\ currentSummary = None
  /\ seenActionData = None
  /\ pollSent = None
  /\ pollTimer = 0
  /\ effectPending = FALSE
  /\ statusQueries = <<>>
  /\ lastServed = None

SpecEscape == InitEscape /\ [][NextQuery]_vars

-----------------------------------------------------------------------------
(* The platform runs the uploaded records: productUpdate(input: {id, tags}) *)

tagx == <<"x">>

\* the products as the collection read them
Snapshot(cat) == <<Node(cat, 1), Node(cat, 2)>>

\* A job has been started on the records planned from the snapshot; the
\* platform has not run any of them yet.
InitExecute ==
  /\ catalog \in Catalogs
  /\ formData \in [action : {"applyTag", "removeTag"},
                   filters : {[BlankFilters EXCEPT !.keyword = <<"s">>]},
                   tagToApply : {taga}]
  /\ pc = "running"
  /\ TAG = Some(taga)
  /\ queryString = BuildProductQuery(formData.filters)
  /\ allProducts = Snapshot(catalog)
  /\ cursor = None
  /\ hasNextPage = FALSE
  /\ pageRequests = <<>>
  /\ pageLog = <<>>
  /\ delays = 0
  /\ collected = Some(Snapshot(catalog))
  /\ jsonlLines = JsonlLines(Snapshot(catalog), taga, formData.action)
  /\ jsonlLines # <<>>
  /\ preRunSummary = Some(PreRunSummary(Len(Snapshot(catalog)), Len(jsonlLines), taga,
                                        formData.action))
  /\ keyParam = None
  /\ calls = NoCalls
  /\ uploaded = Some(jsonlLines)
  /\ callLog = <<>>
  /\ actionData = None
  /\ opContext = None
  /\ resultsText = None
  /\ finalSummary = None
  /\ searchParams = None
  /\ currentOp = None
  /\ loaderData = LoaderReturn(None, None)
  /\ resultFetches = 0
  /\ bulkOpId = None
  /\ bulkOpContext = None
  /\ currentSummary = None
  /\ seenActionData = None
  /\ pollSent = None
  /\ pollTimer = 0
  /\ effectPending = FALSE
  /\ statusQueries = <<>>
  /\ lastServed = None

\* another actor adds a tag to a product while the job is running
OtherActorAddsTag(id, tag) ==
  /\ pc = "running"
  /\ ~HasTagExact(catalog[id], tag)
  /\ catalog' = [catalog EXCEPT ![id] = Append(@, tag)]
  /\ UNCHANGED <<formData, pc, TAG, queryString, actionData, collectorVars, submitVars,
                 reconcileVars, pageVars>>

\* the platform runs the next record of the file: productUpdate sets the
\* product's tags to the list the record carries
ExecuteRecord ==
  /\ pc = "running"
  /\ uploaded[1] # <<>>
  /\ LET line == Head(uploaded[1])
     IN catalog' = [catalog EXCEPT ![line.input.id] = line.input.tags]
  /\ uploaded' = Some(Tail(uploaded[1]))
  /\ pc' = IF Tail(uploaded[1]) = <<>> THEN "completed" ELSE "running"
  /\ UNCHANGED <<formData, TAG, queryString, actionData, collectorVars, jsonlLines,
                 preRunSummary, keyParam, calls, callLog, reconcileVars, pageVars>>

NextExecute ==
  \/ \E id \in ProductIds : OtherActorAddsTag(id, tagx)
  \/ ExecuteRecord

SpecExecute == InitExecute /\ [][NextExecute]_vars

-----------------------------------------------------------------------------
(* Properties of the reconciler, checked under SpecReconcile *)

SummaryBalanced(s) == s.total = s.updated + s.failed + s.alreadyHadTag

\* C1: every summary the reconciler returns, on the normal path and on the
\* fallback path, for every result file and every job context, satisfies
\* total = updated + failed + alreadyHadTag.
C1_FinalSummaryBalanced ==
  finalSummary # None => SummaryBalanced(finalSummary[1].summary)

-----------------------------------------------------------------------------
(* Properties of the submission, checked under Spec *)

Returned == pc = "done" /\ actionData # None
Result == actionData[1]
Planned == preRunSummary # None
Intent == formData.action

\* two strings are equal up to the case of their letters
EqualIgnoringCase(s, t) ==
  /\ Len(s) = Len(t)
  /\ \A i \in 1..Len(s) : ToLowerChar(s[i]) = ToLowerChar(t[i])

CarriesTag(product, tag) ==
  \E i \in 1..Len(product.tags) : EqualIgnoringCase(product.tags[i], tag)

\* positions of the collected list that carry / do not carry the tag
Carrying(products, tag) == {i \in 1..Len(products) : CarriesTag(products[i], tag)}
NotCarrying(products, tag) == {i \in 1..Len(products) : ~CarriesTag(products[i], tag)}

\* C2: every PreRunSummary the apply or remove action returns has failed = 0,
\* total = the number of products collected, updated = the number of mutation
\* records serialized (and uploaded, when a job was started), and
\* total = updated + alreadyHadTag (apply) or updated + didNotHaveTag (remove).
C2_PreRunSummaryConsistent ==
  (Returned /\ Result.preRunSummary # None) =>
    LET s == Result.preRunSummary[1]
    IN /\ s.failed = 0
       /\ collected # None
       /\ s.total = Len(collected[1])
       /\ s.updated = Len(jsonlLines)
       /\ Result.bulkOperationId # None =>
            (uploaded # None /\ Len(uploaded[1]) = s.updated)
       /\ Intent = "applyTag" =>
            /\ s.total = s.updated + s.alreadyHadTag
            /\ s.updated = Cardinality(NotCarrying(collected[1], TAG[1]))
       /\ Intent = "removeTag" =>
            /\ s.total = s.updated + s.didNotHaveTag
            /\ s.updated = Cardinality(Carrying(collected[1], TAG[1]))

\* an apply run whose summary counts both updated and already tagged products,
\* one of them tagged in another case than the operator typed
C2_Witness ==
  /\ Returned
  /\ Intent = "applyTag"
  /\ Result.bulkOperationId # None
  /\ Result.preRunSummary[1].updated = 1
  /\ Result.preRunSummary[1].alreadyHadTag = 1
  /\ collected[1][1].id # collected[1][2].id
  /\ \E i \in 1..Len(collected[1]) :
       /\ CarriesTag(collected[1][i], TAG[1])
       /\ \A j \in 1..Len(collected[1][i].tags) : collected[1][i].tags[j] # TAG[1]

\* the collected products after the planned run: each mutated product
\* carries the tags of its mutation record
TagsAfterRun(product, lines) ==
  IF \E k \in 1..Len(lines) : lines[k].input.id = product.id
  THEN lines[CHOOSE k \in 1..Len(lines) : lines[k].input.id = product.id].input.tags
  ELSE product.tags

ProductsAfterRun(products, lines) ==
  [i \in 1..Len(products) |-> [id |-> products[i].id,
                               tags |-> TagsAfterRun(products[i], lines)]]

\* C3: planning a run (apply or remove), replacing each mutated product's tags
\* by its record's tags, and planning the same run again with the same tag
\* yields no mutation record.
C3_SecondRunPlansNothing ==
  Planned =>
    JsonlLines(ProductsAfterRun(collected[1], jsonlLines), TAG[1], Intent) = <<>>

\* a remove run that mutated a product carrying the tag twice, in two cases
C3_Witness ==
  /\ Planned
  /\ Intent = "removeTag"
  /\ \E i \in 1..Len(collected[1]) :
       /\ \E k \in 1..Len(jsonlLines) : jsonlLines[k].input.id = collected[1][i].id
       /\ Cardinality({j \in 1..Len(collected[1][i].tags) :
                         EqualIgnoringCase(collected[1][i].tags[j], TAG[1])}) = 2

\* the sequence s restricted to the positions in keep, in order
RECURSIVE Restrict(_, _, _)
Restrict(s, keep, from) ==
  IF from > Len(s) THEN <<>>
  ELSE (IF from \in keep THEN <<s[from]>> ELSE <<>>) \o Restrict(s, keep, from + 1)

\* the tags of a list that differ from the tag in more than case, in order
OtherTags(tags, tag) ==
  Restrict(tags, {j \in 1..Len(tags) : ~EqualIgnoringCase(tags[j], tag)}, 1)

\* C4: apply planning excludes a product exactly when one of its tags equals
\* the trimmed target tag up to case; every other collected product yields one
\* record, in collection order, whose tags are the product's tags, unchanged
\* and in order, followed by the trimmed target tag in the case it was typed.
C4_ApplyPlanning ==
  (Planned /\ Intent = "applyTag") =>
    LET products == collected[1]
        mutated == Restrict(products, NotCarrying(products, TAG[1]), 1)
    IN /\ TAG[1] = Trim(formData.tagToApply)
       /\ Len(jsonlLines) = Len(mutated)
       /\ \A k \in 1..Len(mutated) :
            LET newTags == jsonlLines[k].input.tags
                oldTags == mutated[k].tags
            IN /\ jsonlLines[k].input.id = mutated[k].id
               /\ Len(newTags) = Len(oldTags) + 1
               /\ SubSeq(newTags, 1, Len(oldTags)) = oldTags
               /\ newTags[Len(newTags)] = Trim(formData.tagToApply)

\* an apply run, the tag typed with blanks around it, that excluded a product
\* tagged in another case and mutated a product that had other tags
C4_Witness ==
  /\ Planned
  /\ Intent = "applyTag"
  /\ formData.tagToApply # TAG[1]
  /\ \E i \in 1..Len(collected[1]) :
       /\ CarriesTag(collected[1][i], TAG[1])
       /\ \A j \in 1..Len(collected[1][i].tags) : collected[1][i].tags[j] # TAG[1]
  /\ \E k \in 1..Len(jsonlLines) : Len(jsonlLines[k].input.tags) > 1

\* C5: remove planning excludes a product (counted in didNotHaveTag) exactly
\* when none of its tags equals the target tag up to case; every other
\* collected product yields one record, in collection order, whose tags are
\* the product's tags without every tag equal to the target tag up to case,
\* the others kept in order.
C5_RemovePlanning ==
  (Planned /\ Intent = "removeTag") =>
    LET products == collected[1]
        mutated == Restrict(products, Carrying(products, TAG[1]), 1)
    IN /\ preRunSummary[1].didNotHaveTag = Cardinality(NotCarrying(products, TAG[1]))
       /\ Len(jsonlLines) = Len(mutated)
       /\ \A k \in 1..Len(mutated) :
            /\ jsonlLines[k].input.id = mutated[k].id
            /\ jsonlLines[k].input.tags = OtherTags(mutated[k].tags, TAG[1])

\* a remove run that excluded a product and took two spellings of the tag off
\* another, keeping its other tag
C5_Witness ==
  /\ Planned
  /\ Intent = "removeTag"
  /\ preRunSummary[1].didNotHaveTag > 0
  /\ \E i \in 1..Len(collected[1]), k \in 1..Len(jsonlLines) :
       /\ jsonlLines[k].input.id = collected[1][i].id
       /\ Len(collected[1][i].tags) = 3
       /\ Len(jsonlLines[k].input.tags) = 1

\* C6: the record stream of one run holds at most one mutation record per
\* product id, whatever pages the platform returned.
C6_AtMostOneRecordPerProduct ==
  \A i, j \in 1..Len(jsonlLines) :
    jsonlLines[i].input.id = jsonlLines[j].input.id => i = j

IsPage(entry) == "edges" \in DOMAIN entry
IsFailure(entry) == "error" \in DOMAIN entry

\* the products of the logged pages, page after page
RECURSIVE ConcatPages(_)
ConcatPages(log) ==
  IF log = <<>> THEN <<>>
  ELSE (IF IsPage(Head(log)) THEN Head(log).edges ELSE <<>>) \o ConcatPages(Tail(log))

LastPageServed ==
  /\ pageLog # <<>>
  /\ IsPage(pageLog[Len(pageLog)])
  /\ ~pageLog[Len(pageLog)].hasNextPage

\* C7: fetchProductsIteratively returns exactly the products of every page, in
\* arrival order, up to and including the first page that reports
\* hasNextPage = false (nothing but empty pages gives the empty list, which is
\* returned, not thrown); it returns as soon as that page arrives.
C7_CollectsEveryPageInOrder ==
  /\ LastPageServed => collected # None
  /\ collected # None =>
       /\ LastPageServed
       /\ \A k \in 1..(Len(pageLog) - 1) :
            IsPage(pageLog[k]) /\ pageLog[k].hasNextPage
       /\ Len(pageRequests) = Len(pageLog)
       /\ collected[1] = ConcatPages(pageLog)

\* two different non-empty pages were collected
C7_Witness ==
  /\ collected # None
  /\ Len(pageLog) = 2
  /\ Len(pageLog[1].edges) = 2
  /\ pageLog[2].edges # <<>>
  /\ pageLog[1].edges[1] # pageLog[1].edges[2]

\* C8: a failed page request (thrown error, GraphQL errors, no products
\* field) ends the collection at that page: no product list is returned, not
\* even the pages already fetched, and no further page is requested.
C8_FailedPageEndsCollection ==
  \A k \in 1..Len(pageLog) :
    IsFailure(pageLog[k]) =>
      /\ k = Len(pageLog)
      /\ Len(pageRequests) = k
      /\ collected = None
      /\ ~hasNextPage
      /\ pc = "done"

\* the second page request failed after a first page that had products
C8_Witness ==
  /\ Len(pageLog) = 2
  /\ IsPage(pageLog[1])
  /\ pageLog[1].edges # <<>>
  /\ IsFailure(pageLog[2])
  /\ pageLog[2].error = "noProducts"
  /\ allProducts # <<>>
  /\ collected = None

CollectionFailed == \E k \in 1..Len(pageLog) : IsFailure(pageLog[k])

\* C9: when the collection fails during an apply or remove submission, nothing
\* is planned, no staged upload target is asked for, nothing is uploaded, no
\* bulk operation is started, and the result carries an error, no operation id
\* and no PreRunSummary.
C9_FailedCollectionSubmitsNothing ==
  CollectionFailed =>
    /\ calls = NoCalls
    /\ uploaded = None
    /\ jsonlLines = <<>>
    /\ preRunSummary = None
    /\ Returned
    /\ ~Result.success
    /\ Result.error # None
    /\ Result.bulkOperationId = None
    /\ Result.preRunSummary = None

\* the collection failed after a page holding a product the run would mutate
C9_Witness ==
  /\ CollectionFailed
  /\ Returned
  /\ JsonlLines(allProducts, TAG[1], Intent) # <<>>

NothingSubmitted ==
  /\ Result.bulkOperationId = None
  /\ calls = NoCalls
  /\ uploaded = None

-----------------------------------------------------------------------------
(* The order of the submission's platform calls, checked under Spec *)

PrecededBy(i, entry) == i > 1 /\ callLog[i - 1] = entry

\* C11: the upload is requested only right after the upload-slot request
\* succeeded, the job start only right after the upload succeeded; a failed
\* upload-slot request, upload or job start is the last call of the
\* submission, the action then returns an error and no job handle, and the
\* client that has handled this return holds no job handle.
C11_SubmissionShortCircuits ==
  /\ \A i \in 1..Len(callLog) :
       /\ callLog[i] = Call("upload", "request") => PrecededBy(i, Call("staged", "ok"))
       /\ callLog[i] = Call("bulkRun", "request") => PrecededBy(i, Call("upload", "ok"))
       /\ callLog[i].event = "failed" =>
            /\ i = Len(callLog)
            /\ Returned
            /\ Result.error # None
            /\ Result.bulkOperationId = None
            /\ bulkOpId = None
  /\ bulkOpId # None =>
       /\ Returned
       /\ bulkOpId = Result.bulkOperationId
       /\ callLog[Len(callLog)] = Call("bulkRun", "ok")

\* the job start failed after a successful upload and the client has handled it
C11_Witness ==
  /\ Len(callLog) = 6
  /\ callLog[6] = Call("bulkRun", "failed")
  /\ seenActionData = actionData
  /\ seenActionData # None
  /\ bulkOpId = None

-----------------------------------------------------------------------------
(* Properties of the reconciler's counts, checked under SpecReconcile *)

\* the lines of the file the loop visits: all but the empty lines and the
\* blank lines before the first and after the last line with content
CountedLines(text) ==
  {i \in 1..Len(text) :
     /\ text[i] # EmptyLine
     /\ \E j \in 1..i : ~IsWhitespaceLine(text[j])
     /\ \E j \in i..Len(text) : ~IsWhitespaceLine(text[j])}

Unparsable(line) == line.text \in {"space", "malformed"}
IsRecord(line) == line.text = "json"
CarriesError(line) ==
  line.errors \/ (line.userErrors # None /\ line.userErrors[1] >= 1)

NormalPath == finalSummary # None /\ finalSummary[1].path = "normal"
FallbackPath == finalSummary # None /\ finalSummary[1].path = "fallback"
Final == finalSummary[1].summary

\* C16: on the normal path failed counts every visited line that is no JSON,
\* every record with a platform-level error or a non-empty userErrors list
\* (and every line holding JSON null, whose fields cannot be read); updated
\* counts every other record (and every other JSON value); so failed is at
\* least the number of malformed lines.
C16_ReconcilerClassification ==
  NormalPath =>
    LET visited == CountedLines(resultsText)
        malformed == {i \in visited : Unparsable(resultsText[i])}
        failing == {i \in visited : IsRecord(resultsText[i]) /\ CarriesError(resultsText[i])}
        clean == {i \in visited : IsRecord(resultsText[i]) /\ ~CarriesError(resultsText[i])}
        nulls == {i \in visited : resultsText[i] = NullLine}
        scalars == {i \in visited : resultsText[i] = ScalarLine}
    IN /\ Final.failed = Cardinality(malformed) + Cardinality(failing) + Cardinality(nulls)
       /\ Final.updated = Cardinality(clean) + Cardinality(scalars)
       /\ Final.failed >= Cardinality(malformed)

\* a malformed line, a record with a userError and a clean record
C16_Witness ==
  /\ NormalPath
  /\ resultsText = <<MalformedLine, JsonLine(FALSE, Some(1)), JsonLine(FALSE, Some(0))>>
  /\ Final.failed = 2
  /\ Final.updated = 1

CleanLine == JsonLine(FALSE, None)

\* C17: on the normal path updated + failed is the number of visited lines
\* (the non-empty lines of the trimmed content), alreadyHadTag is
\* max(0, totalFiltered - (updated + failed)) and total is totalFiltered; six
\* clean lines and one with a userError, with totalFiltered = 10, give
\* {updated: 6, failed: 1, alreadyHadTag: 3, total: 10}.
C17_NormalPathCounts ==
  /\ NormalPath =>
       LET attempted == Final.updated + Final.failed
           rest == opContext[1].totalFiltered - attempted
       IN /\ attempted = Cardinality(CountedLines(resultsText))
          /\ Final.alreadyHadTag = (IF rest > 0 THEN rest ELSE 0)
          /\ Final.total = opContext[1].totalFiltered
  /\ NormalSummary(<<CleanLine, CleanLine, JsonLine(FALSE, Some(1)), CleanLine,
                     CleanLine, CleanLine, CleanLine>>,
                   [totalFiltered |-> 10, totalProcessed |-> 7, tag |-> taga])
       = [updated |-> 6, failed |-> 1, alreadyHadTag |-> 3, total |-> 10, tag |-> taga]

\* a malformed line first, a clean line after it, one product left untouched
C17_Witness ==
  /\ NormalPath
  /\ resultsText = <<MalformedLine, CleanLine>>
  /\ opContext[1].totalFiltered = 3
  /\ Final.updated = 1
  /\ Final.failed = 1
  /\ Final.alreadyHadTag = 1

\* C18: when the fetch of the result file throws or answers non-OK the
\* reconciler returns {updated: 0, failed: totalProcessed, alreadyHadTag:
\* totalFiltered - totalProcessed, total: totalFiltered, tag}.
C18_FetchFailureFallback ==
  (finalSummary # None /\ finalSummary[1].fetch \in {"notOk", "thrown"}) =>
    /\ Final.updated = 0
    /\ Final.failed = opContext[1].totalProcessed
    /\ Final.alreadyHadTag = opContext[1].totalFiltered - opContext[1].totalProcessed
    /\ Final.total = opContext[1].totalFiltered
    /\ Final.tag = opContext[1].tag
    /\ DOMAIN Final = {"updated", "failed", "alreadyHadTag", "total", "tag"}

\* a non-OK answer for a file of two clean lines, two of three products processed
C18_Witness ==
  /\ finalSummary # None
  /\ finalSummary[1].fetch = "notOk"
  /\ resultsText = <<CleanLine, CleanLine>>
  /\ opContext[1].totalFiltered = 3
  /\ opContext[1].totalProcessed = 2
  /\ Final.failed = 2

\* C20: a result file fetched successfully that is empty, with
\* totalProcessed > 0, yields the fallback summary (updated = 0, failed =
\* totalProcessed, alreadyHadTag = totalFiltered - totalProcessed).
C20_EmptyResultFallsBack ==
  (/\ finalSummary # None
   /\ finalSummary[1].fetch = "ok"
   /\ resultsText = <<>>
   /\ opContext[1].totalProcessed > 0) =>
    /\ Final.updated = 0
    /\ Final.failed = opContext[1].totalProcessed
    /\ Final.alreadyHadTag = opContext[1].totalFiltered - opContext[1].totalProcessed

-----------------------------------------------------------------------------
(* Properties of the status poll, checked under SpecPoll *)

ContextKeys == {"totalFiltered", "totalProcessed", "appliedTag"}
AllPresent(params) == \A k \in ContextKeys : params[k] # None
PolledStatus == loaderData.bulkOperationStatus
CompletedWithUrl(status) ==
  status # None /\ status[1].status = "COMPLETED" /\ status[1].url # None

\* C12: a component mounted on a loader response holds a job handle only if
\* the response names a job, totalFiltered, totalProcessed and appliedTag are
\* all present in the request parameters and the job's status is not terminal;
\* otherwise it holds neither a handle nor a context.
C12_ResumeOnlyWithFullContext ==
  pc = "mounted" =>
    IF bulkOpId # None
    THEN /\ bulkOpContext # None
         /\ PolledStatus # None
         /\ ~IsTerminal(PolledStatus)
         /\ AllPresent(searchParams)
    ELSE bulkOpContext = None

\* C13: a status check whose request lacks totalFiltered, totalProcessed or
\* appliedTag returns finalSummary = null, whatever the status of the job.
C13_FailClosed ==
  (pc = "loaded" /\ CheckStatus(searchParams) /\ ~AllPresent(searchParams)) =>
    loaderData.finalSummary = None

\* C14: for a poll request as the component built it, the loader decodes the
\* context the component held, and a component mounted on the response that
\* resumes the job holds the handle and the context the component held.
C14_PollParamsRoundTrip ==
  (pollSent # None /\ searchParams = PollParams(pollSent[1].bulkOpContext)) =>
    /\ pc \in {"results", "loaded"} => opContext = pollSent[1].bulkOpContext
    /\ (pc = "mounted" /\ bulkOpId # None) =>
         /\ bulkOpId = pollSent[1].bulkOpId
         /\ bulkOpContext = pollSent[1].bulkOpContext

\* C15: the loader returns a final summary only for a polled status COMPLETED
\* with a result url; while the platform reports no operation, or one that is
\* not COMPLETED or has no result url, no result file is fetched and the
\* loader's finalSummary is null.
C15_SummaryOnlyWhenCompletedWithUrl ==
  /\ loaderData.finalSummary # None => CompletedWithUrl(PolledStatus)
  /\ ~CompletedWithUrl(currentOp) =>
       /\ resultFetches = 0
       /\ pc # "results"
       /\ finalSummary = None
       /\ loaderData.finalSummary = None

\* a status check that found the job COMPLETED with a url returned a summary
C15_Witness ==
  /\ pc = "loaded"
  /\ CompletedWithUrl(PolledStatus)
  /\ loaderData.finalSummary # None
  /\ resultFetches = 1

\* every result file of up to MaxLines lines
AllResultTexts == UNION {[1..n -> ResultLines] : n \in 0..MaxLines}

\* C19: the loader output after a failed fetch of the result file differs from
\* every output the normal path can give for the same job context.
C19_FallbackDistinct ==
  (pc = "loaded" /\ FallbackPath) =>
    \A text \in AllResultTexts :
      loaderData # LoaderReturn(currentOp, Some(NormalSummary(text, opContext[1])))

-----------------------------------------------------------------------------
(* Properties of the query builder, checked under SpecQuery *)

Built == pc = "built"
Criteria == formData.filters
IsBlank(s) == \A i \in 1..Len(s) : s[i] = " "
FieldOrder == <<"keyword", "productType", "collectionHandle">>

\* C25: the query is absent exactly when keyword, productType and
\* collectionHandle are all blank; with a non-blank field it is a non-empty
\* string.
C25_NoQueryIffAllBlank ==
  Built =>
    /\ queryString = None <=> \A i \in 1..3 : IsBlank(Criteria[FieldOrder[i]])
    /\ queryString # None => Len(queryString[1]) > 0

\* only productType is non-blank, the keyword is two spaces
C25_Witness ==
  /\ Built
  /\ Criteria = [keyword |-> <<" ", " ">>, productType |-> <<"s">>,
                 collectionHandle |-> <<>>]
  /\ queryString = Some(<<"product_type:", "'", "s", "'">>)

\* the clauses of a query: its parts between the " AND " separators
RECURSIVE SplitAnd(_, _)
SplitAnd(q, clause) ==
  IF q = <<>> THEN <<clause>>
  ELSE IF Head(q) = " AND " THEN <<clause>> \o SplitAnd(Tail(q), <<>>)
       ELSE SplitAnd(Tail(q), Append(clause, Head(q)))

NonBlankFields == SelectSeq(FieldOrder, LAMBDA f : ~IsBlank(Criteria[f]))

Quotes(s) == {j \in 1..Len(s) : s[j] = "'"}

\* the clause of an exact-match field: name, quoted value, every quote of the
\* input present and preceded by a backslash
ExactClause(name, input, clause) ==
  /\ Len(clause) >= 3
  /\ clause[1] = name
  /\ clause[2] = "'"
  /\ clause[Len(clause)] = "'"
  /\ LET value == SubSeq(clause, 3, Len(clause) - 1)
     IN /\ Cardinality(Quotes(value)) = Cardinality(Quotes(input))
        /\ \A j \in Quotes(value) : j > 1 /\ value[j - 1] = "\\"

\* the clause of the keyword: title:*...* without any quote character
TitleClause(clause) ==
  /\ Len(clause) >= 2
  /\ clause[1] = "title:*"
  /\ clause[Len(clause)] = "*"
  /\ \A j \in 1..Len(clause) : clause[j] \notin {"'", "\""}

ClauseOf(field, clause) ==
  CASE field = "keyword" -> TitleClause(clause)
    [] field = "productType" -> ExactClause("product_type:", Criteria[field], clause)
    [] OTHER -> ExactClause("collection:", Criteria[field], clause)

\* C26: the query is one clause per non-blank field, in the order keyword,
\* productType, collectionHandle, separated by " AND "; the keyword clause
\* holds no quote character, and every single quote of a productType or a
\* collectionHandle is in its clause preceded by a backslash.
C26_OneClausePerField ==
  (Built /\ queryString # None) =>
    LET clauses == SplitAnd(queryString[1], <<>>)
    IN /\ Len(clauses) = Len(NonBlankFields)
       /\ \A i \in 1..Len(clauses) : ClauseOf(NonBlankFields[i], clauses[i])

\* three non-blank fields, with quotes in the keyword and the product type
C26_Witness ==
  /\ Built
  /\ Criteria = [keyword |-> <<"s", "\"">>, productType |-> <<"'", "s">>,
                 collectionHandle |-> <<"s">>]
  /\ queryString = Some(<<"title:*", "s", "*", " AND ", "product_type:", "'", "\\", "'",
                          "s", "'", " AND ", "collection:", "'", "s", "'">>)

-----------------------------------------------------------------------------
(* Outcomes of submissions that have nothing to do, checked under Spec *)

ValidSubmission ==
  /\ Intent \in {"applyTag", "removeTag"}
  /\ ~IsBlank(formData.tagToApply)

AllBlank(filters) == \A i \in 1..3 : IsBlank(filters[FieldOrder[i]])

\* C27: an apply or remove submission whose filters are all blank issues no
\* platform call and returns a result without an error.
C27_BlankFiltersAreNoOp ==
  (Returned /\ ValidSubmission /\ AllBlank(formData.filters)) =>
    /\ pageRequests = <<>>
    /\ calls = NoCalls
    /\ Result.error = None

\* C28: a submission whose filters match no product returns successfully with
\* a summary whose counts are all zero, total included.
C28_ZeroMatchesIsNoOp ==
  (Returned /\ collected = Some(<<>>)) =>
    /\ Result.success
    /\ Result.error = None
    /\ Result.preRunSummary # None
    /\ Result.preRunSummary[1].total = 0
    /\ Result.preRunSummary[1].updated = 0
    /\ Result.preRunSummary[1].failed = 0

-----------------------------------------------------------------------------
(* The final summary of a remove job, checked under SpecPoll *)

\* C29: the final summary the loader returns for a job that the remove action
\* started has action = "remove" and carries its skipped count in
\* didNotHaveTag.
C29_RemoveFinalSummary ==
  (/\ pc = "loaded"
   /\ formData.action = "removeTag"
   /\ pollSent # None
   /\ PolledStatus # None
   /\ Some(PolledStatus[1].id) = pollSent[1].bulkOpId
   /\ loaderData.finalSummary # None) =>
    LET final == loaderData.finalSummary[1]
    IN /\ "action" \in DOMAIN final
       /\ final.action = "remove"
       /\ "didNotHaveTag" \in DOMAIN final
       /\ final.didNotHaveTag
            = opContext[1].totalFiltered - (final.updated + final.failed)

-----------------------------------------------------------------------------
(* The polling loop of the client, checked under SpecPoll *)

\* a poll request of the client is with the loader
PollInFlight ==
  /\ pc \in {"request", "results"}
  /\ pollSent # None
  /\ searchParams = PollParams(pollSent[1].bulkOpContext)

\* the poll effect has run on the response to a status check
PollAnswered ==
  /\ pc = "loaded"
  /\ CheckStatus(searchParams)
  /\ ~effectPending

\* C22: once the poll effect has run on a poll response that carries a
\* status, a client holding a job handle has the timer of the next poll
\* pending, built from the handle and context it holds, if the status is
\* CREATED or RUNNING, and no timer is pending if the status is COMPLETED,
\* FAILED or CANCELED.
C22_PollWhileNonTerminal ==
  (PollAnswered /\ PolledStatus # None) =>
    /\ (bulkOpId # None /\ PolledStatus[1].status \in {"CREATED", "RUNNING"}) =>
         /\ pollTimer = 1
         /\ pollSent = Some([bulkOpId |-> bulkOpId, bulkOpContext |-> bulkOpContext])
    /\ PolledStatus[1].status \in {"COMPLETED", "FAILED", "CANCELED"} =>
         pollTimer = 0

\* the next poll is scheduled after a RUNNING response
C22_Witness ==
  /\ PollAnswered
  /\ PolledStatus # None
  /\ PolledStatus[1].status = "RUNNING"
  /\ bulkOpId # None
  /\ pollTimer = 1

\* C23: after a status check that returned no status (the status query threw
\* or the platform reported no operation) to a client holding a job handle,
\* the client still holds the handle and the context it polled with, and
\* another poll is on its way: the poll effect is about to run or its timer
\* is pending.
C23_FailedPollRecovers ==
  (/\ pc = "loaded"
   /\ CheckStatus(searchParams)
   /\ PolledStatus = None
   /\ pollSent # None
   /\ bulkOpId # None) =>
    /\ bulkOpId = pollSent[1].bulkOpId
    /\ bulkOpContext = pollSent[1].bulkOpContext
    /\ effectPending \/ pollTimer > 0

\* C30: at most one poll timer is pending; none is pending while a poll
\* request is with the loader; a timer left pending by the poll effect, and a
\* poll request with the loader, belong to a client that holds a job handle
\* and whose last known status is not COMPLETED, FAILED or CANCELED.
C30_SingleFlight ==
  LET polling ==
        /\ bulkOpId # None
        /\ PolledStatus # None =>
             PolledStatus[1].status \notin {"COMPLETED", "FAILED", "CANCELED"}
  IN /\ pollTimer <= 1
     /\ PollInFlight => pollTimer = 0
     /\ (PollInFlight /\ ~effectPending) => polling
     /\ (pollTimer = 1 /\ ~effectPending) => polling

\* the timer of a second poll has fired after a RUNNING response
C30_Witness ==
  /\ PollInFlight
  /\ pc = "request"
  /\ pollTimer = 0
  /\ bulkOpId # None
  /\ PolledStatus # None
  /\ PolledStatus[1].status = "RUNNING"

-----------------------------------------------------------------------------
(* The loader as a reader, checked under SpecLoader *)

\* the request that was answered last met what this request has met
SameAnswers ==
  /\ lastServed # None
  /\ statusQueries = lastServed[1].statusQueries
  /\ pageLog = lastServed[1].pageLog
  /\ resultFetches = lastServed[1].resultFetches
  /\ resultsText = lastServed[1].resultsText
  /\ Served.fetch = lastServed[1].fetch

NoFilterSet == AllBlank(Filters(searchParams))

\* C24: a request whose keyword, productType and collectionHandle are all
\* blank requests no product page, and the loader returns previewMode false,
\* no products, totalCount 0 and error null, whatever preview, checkStatus and
\* the job parameters are.
C24_NoFilterNoPreview ==
  NoFilterSet =>
    /\ pageRequests = <<>>
    /\ pc \notin {"collect", "collected"}
    /\ pc = "loaded" =>
         /\ loaderData.previewMode = FALSE
         /\ loaderData.products = <<>>
         /\ loaderData.totalCount = 0
         /\ loaderData.error = None

\* a preview of blank filters, one of them a blank that is not empty, returned
C24_Witness ==
  /\ pc = "loaded"
  /\ NoFilterSet
  /\ Preview(searchParams)
  /\ Filters(searchParams).keyword = <<" ">>
  /\ ~CheckStatus(searchParams)

-----------------------------------------------------------------------------
(* The pacing and the page chain of fetchProductsIteratively, checked under Spec *)

\* a page response that announced a further page
NonFinalPage(entry) == "hasNextPage" \in DOMAIN entry /\ entry.hasNextPage

\* a page response that ends the loop: the last page or a failure
EndsLoop(entry) == ~NonFinalPage(entry)

NonFinalPages == Cardinality({i \in 1..Len(pageLog) : NonFinalPage(pageLog[i])})

\* C32: the collector has waited once after every page response that
\* announced a further page, that is once between every two consecutive page
\* requests, whatever the pages held.
C32_DelayBetweenPages == delays = NonFinalPages

\* C33: the collector waits at most once per page that announced a further
\* page, so never after the last page nor after a failed one, and once such a
\* response has arrived the loop is left.
C33_NoDelayAfterLastPage ==
  /\ delays <= NonFinalPages
  /\ (pageLog # <<>> /\ EndsLoop(pageLog[Len(pageLog)])) =>
       /\ pc # "collect"
       /\ ~hasNextPage

\* two pages were collected with one wait between them and none at the end
C33_Witness ==
  /\ pc = "collected"
  /\ Len(pageLog) = 2
  /\ delays = 1

\* C35: every page request is answered before the next is sent; the first
\* request carries no cursor and each later one the endCursor of the response
\* before it, which announced a further page; after a response that is the
\* last page or a failure the collector has returned or failed and requests
\* nothing more.
C35_PageChain ==
  /\ Len(pageLog) = Len(pageRequests)
  /\ pageRequests # <<>> => pageRequests[1] = None
  /\ \A i \in 1..(Len(pageRequests) - 1) :
       /\ NonFinalPage(pageLog[i])
       /\ pageRequests[i + 1] = pageLog[i].endCursor
  /\ (pageLog # <<>> /\ EndsLoop(pageLog[Len(pageLog)])) => ~MayRequestPage
  /\ pc = "collect" => hasNextPage

\* a second page was requested with the first page's cursor and ended the set
C35_Witness ==
  /\ pc = "collected"
  /\ Len(pageRequests) = 2
  /\ pageRequests[2] # None
  /\ collected # None

-----------------------------------------------------------------------------
(* The quoted literals of the query, checked under SpecEscape *)

\* the number of consecutive backslashes right before position j of s
RECURSIVE BackslashesBefore(_, _)
BackslashesBefore(s, j) ==
  IF j > 1 /\ s[j - 1] = "\\" THEN 1 + BackslashesBefore(s, j - 1) ELSE 0

\* C40: in every clause of a productType or a collectionHandle, every single
\* quote between the two delimiting quotes is preceded by an odd number of
\* consecutive backslashes, so that none of them ends the literal.
C40_QuotesStayEscaped ==
  (Built /\ queryString # None) =>
    LET clauses == SplitAnd(queryString[1], <<>>)
    IN \A i \in 1..Len(clauses) :
         LET value == SubSeq(clauses[i], 3, Len(clauses[i]) - 1)
         IN \A j \in Quotes(value) : BackslashesBefore(value, j) % 2 = 1

-----------------------------------------------------------------------------
(* The effect of the submitted records on the catalog, checked under SpecExecute *)

\* C39: no step takes from a product a tag that differs from the target tag
\* (compared without case): every such tag the product carries before the
\* step it carries after it, also a tag another actor added after the
\* snapshot.
C39_OnlyTargetTagRemoved ==
  [][\A id \in ProductIds :
       \A i \in 1..Len(catalog[id]) :
         ToLowerCase(catalog[id][i]) # ToLowerCase(TAG[1]) =>
           \E j \in 1..Len(catalog'[id]) : catalog'[id][j] = catalog[id][i]]_vars

-----------------------------------------------------------------------------
(* Fetches the platform never answers, checked under SpecLoader *)

\* C34: a request that waits for a page or for the result file the platform
\* never answers can still take a step: the wait is ended, as a failure, by
\* the program itself.
C34_SilentFetchIsEnded == pc = "pending" => ENABLED <<NextLoader>>_vars

-----------------------------------------------------------------------------
(* The end of a job in the client, checked under SpecPoll *)

\* the poll effect has run on the loader response the component shows
EffectsRan == pc \in {"loaded", "mounted"} /\ ~effectPending

\* C31: once the poll effect has run on a response that carries a final
\* summary, the client holds no job handle and no context, no poll timer is
\* pending, and the summary shown is that final summary; this lasts until a
\* new request is made.
C31_FinalSummaryEndsJob ==
  (EffectsRan /\ loaderData.finalSummary # None) =>
    /\ bulkOpId = None
    /\ bulkOpContext = None
    /\ pollTimer = 0
    /\ currentSummary = loaderData.finalSummary

\* a poll of the client returned the final summary and the effect took it over
C31_Witness ==
  /\ pc = "loaded"
  /\ ~effectPending
  /\ pollSent # None
  /\ loaderData.finalSummary # None
  /\ currentSummary = loaderData.finalSummary
  /\ bulkOpId = None

\* SummaryBanner: the banner reads "Bulk Operation Processing..."
ShowsProcessing(summary, status, handle) ==
  /\ summary # None
  /\ ~(summary[1].failed > 0)
  /\ \/ handle # None
     \/ status # None /\ status[1].status \in {"RUNNING", "CREATED"}

\* C36: once the poll effect has run on a poll response with status FAILED or
\* CANCELED, the client holds no job handle and no context, as after
\* COMPLETED, and the banner no longer reads processing.
C36_FailedJobEndsJob ==
  (/\ PollAnswered
   /\ PolledStatus # None
   /\ PolledStatus[1].status \in {"FAILED", "CANCELED"}) =>
    /\ bulkOpId = None
    /\ bulkOpContext = None
    /\ ~ShowsProcessing(currentSummary, PolledStatus, bulkOpId)

\* C37: a final summary the client took over from a poll response comes from
\* a status whose id is the job handle the client polled for.
C37_SummaryOfOwnJob ==
  (/\ PollAnswered
   /\ pollSent # None
   /\ searchParams = PollParams(pollSent[1].bulkOpContext)
   /\ loaderData.finalSummary # None
   /\ currentSummary = loaderData.finalSummary) =>
    Some(PolledStatus[1].id) = pollSent[1].bulkOpId

-----------------------------------------------------------------------------
(* The summary of a job submitted on a polled page, checked under SpecResubmit *)

\* C38: a final summary the client shows after the effects of a submission
\* that started a job have run has the total and the tag of the pre-run
\* summary that submission returned.
C38_SummaryMatchesSubmission ==
  (/\ pc = "loaded"
   /\ ~effectPending
   /\ actionData # None
   /\ seenActionData = actionData
   /\ loaderData.finalSummary # None
   /\ currentSummary = loaderData.finalSummary) =>
    /\ currentSummary[1].total = actionData[1].preRunSummary[1].total
    /\ currentSummary[1].tag = actionData[1].preRunSummary[1].tag

====
